---- MODULE Spec2Model ----
(***************************************************************************)
(* Model of the review orchestration pipeline of procrasturbate:           *)
(*   - api/webhooks.py          github_webhook (pull_request events)       *)
(*   - tasks/review_tasks.py    process_pull_request (procrastinate task)  *)
(*   - services/review_engine.py, cost_tracker.py, diff_parser.py          *)
(*                                                                         *)
(* SchedSpec  : webhooks, the procrastinate job table and its workers.     *)
(* Spec       : ReviewEngine.review_pull_request, called with any          *)
(*              arguments, step by step at its suspension points.          *)
(* LiveSpec   : Spec with weak fairness on the steps of a started run.     *)
(***************************************************************************)
EXTENDS Integers, Sequences, FiniteSets, TLC

(***************************************************************************)
(* Bounds of the model.                                                    *)
(***************************************************************************)
NumPRs == 1
NumWorkers == 2
MaxWebhooks == 2
MaxTime == 3
MaxRuns == 1
MaxParts == 2
MaxBody == 3
MaxHunkLines == 2
MaxTokens == 2
MaxUpserts == 3

PRs == 1..NumPRs
Workers == 1..NumWorkers

(* A commit sha is a string of 40 hex digits; two of them are enough to    *)
(* tell "the same head" from "a newer head".  Each is modelled by a tuple  *)
(* longer than the 8-character prefix the engine prints, the two differing *)
(* inside that prefix.                                                     *)
ShaA == <<"a", "a", "a", "a", "a", "a", "a", "a", "a">>
ShaB == <<"b", "b", "b", "b", "b", "b", "b", "b", "b">>
Shas == {ShaA, ShaB}

VARIABLES
    now,          \* wall clock of the job table (seconds)
    jobs,         \* procrastinate_jobs: sequence of job rows, index = job id
    worker,       \* worker -> id of the job it is running, or 0
    deliveries,   \* webhook deliveries handled so far, in arrival order
    taskCalls,    \* calls of review_pull_request made by process_pull_request
    prHead,       \* hosting platform: PR number -> current head sha
    started,      \* number of calls of review_pull_request so far
    run,          \* locals of the current call of review_pull_request
    sess,         \* the Review object held by the session of the call
    review,       \* the Review row of the call as last committed
    usage,        \* UsageRecord of the installation for the current month
    ledger,       \* sums over the committed COMPLETED rows of earlier calls
    checkRun,     \* the check run the call created on the host
    hostReview,   \* the review the call published on the host
    issueComments,\* number of issue comments the call posted
    aiCalls,      \* number of calls the call issued to the AI endpoint
    replayOf,     \* head the first call of a redelivered webhook reviewed
    call,         \* a call of a function of the services: argument and result
    token_cache,  \* utils/github_auth.py: _token_cache entry of the installation
    client,       \* a GitHubClient: its token and the request it is making
    host,         \* hosting platform: tokens issued and tokens it rejects
    txn           \* database sessions inside record_usage

schedVars == <<now, jobs, worker, deliveries, taskCalls>>
engineVars == <<started, run, sess, review, usage, ledger, checkRun, hostReview,
                issueComments, aiCalls, replayOf>>
libVars == <<call, token_cache, client, host, txn>>
vars == <<now, jobs, worker, deliveries, taskCalls, prHead, started, run, sess,
          review, usage, ledger, checkRun, hostReview, issueComments, aiCalls,
          replayOf, call, token_cache, client, host, txn>>

(***************************************************************************)
(* Settings (config.py).  review_debounce_seconds is read from the         *)
(* environment; the model runs with a small value.                         *)
(***************************************************************************)
review_debounce_seconds == 2

(* @app.task(name="process_pull_request", retry=3) *)
retry == 3

(***************************************************************************)
(* api/webhooks.py                                                         *)
(***************************************************************************)
WebhookActions == {"opened", "synchronize", "reopened", "closed"}

(* lock_key = f"pr:{event.repository.full_name}:{event.number}"; the model *)
(* has one repository, so the key is determined by the PR number.          *)
lock_key(pr) == <<"pr", pr>>

(* Keyword arguments handed to defer_async. *)
DeferKwargs(pr, action, sha) ==
    [installation_id |-> 1, repo_full_name |-> "owner/repo", pr_number |-> pr,
     action |-> action, head_sha |-> sha]

(* No schedule_in at all: every job is due at once. *)
ScheduleInNever(action) == 0

(* schedule_in of the configure() call: only synchronize is delayed. *)
ScheduleIn(action) ==
    IF action \in {"opened", "reopened"} THEN 0 ELSE review_debounce_seconds

(* procrastinate refuses a second job in status todo with the same         *)
(* queueing_lock: defer_async raises AlreadyEnqueued.                      *)
AlreadyEnqueued(key) ==
    \E j \in 1..Len(jobs) : jobs[j].status = "todo" /\ jobs[j].queueing_lock = key

NewJob(key, kwargs, delay) ==
    [status |-> "todo", queueing_lock |-> key, scheduled_at |-> now + delay,
     attempts |-> 0, kwargs |-> kwargs]

(* github_webhook, case "pull_request".  The platform sends synchronize     *)
(* for a push, which moves the head of the PR; the other actions carry the *)
(* head the PR has.                                                        *)
github_webhook(pr, action, sha) ==
    /\ Len(deliveries) < MaxWebhooks
    /\ IF action = "synchronize" THEN sha # prHead[pr] ELSE sha = prHead[pr]
    /\ prHead' = [prHead EXCEPT ![pr] = sha]
    /\ LET key == lock_key(pr)
           wants == action \in {"opened", "synchronize", "reopened"}
           raised == wants /\ AlreadyEnqueued(key)
       IN  /\ jobs' = IF wants /\ ~raised
                      THEN Append(jobs, NewJob(key, DeferKwargs(pr, action, sha),
                                               ScheduleIn(action)))
                      ELSE jobs
           /\ deliveries' = Append(deliveries,
                  [pr |-> pr, action |-> action, sha |-> sha, at |-> now,
                   response |-> IF raised THEN "AlreadyEnqueued" ELSE "queued",
                   job |-> IF wants /\ ~raised THEN Len(jobs) + 1 ELSE 0])
    /\ UNCHANGED <<now, worker, taskCalls>>
    /\ UNCHANGED <<engineVars, libVars>>

(***************************************************************************)
(* procrastinate worker                                                    *)
(***************************************************************************)
Eligible == {j \in 1..Len(jobs) : jobs[j].status = "todo" /\ jobs[j].scheduled_at <= now}

(* fetch_job: the oldest job that is due; it goes from todo to doing. *)
FetchJob(w) ==
    /\ worker[w] = 0
    /\ Eligible # {}
    /\ LET j == CHOOSE x \in Eligible : \A y \in Eligible : x <= y
       IN  /\ jobs' = [jobs EXCEPT ![j].status = "doing"]
           /\ worker' = [worker EXCEPT ![w] = j]
    /\ UNCHANGED <<now, deliveries, taskCalls, prHead>>
    /\ UNCHANGED <<engineVars, libVars>>

(* Parameters of process_pull_request (tasks/review_tasks.py:12-17). *)
TaskParams == {"installation_id", "repo_full_name", "pr_number", "action"}

(* Python binds the job's keyword arguments to the parameters; a keyword   *)
(* the function does not declare is a TypeError.                           *)
BindsArguments(kwargs) == DOMAIN kwargs \subseteq TaskParams

(* trigger_map.get(action, ReviewTrigger.PR_OPENED) *)
trigger_map(action) ==
    CASE action = "opened" -> "pr_opened"
      [] action = "synchronize" -> "pr_synchronize"
      [] action = "reopened" -> "pr_reopened"
      [] OTHER -> "pr_opened"

(* The worker calls the task with the stored kwargs and records the        *)
(* outcome: success, or failure with the retry strategy of the task.       *)
RunTask(w) ==
    /\ worker[w] # 0
    /\ LET j == worker[w]
           ok == BindsArguments(jobs[j].kwargs)
           canRetry == jobs[j].attempts < retry
           clash == \E k \in 1..Len(jobs) :
                        /\ k # j
                        /\ jobs[k].status = "todo"
                        /\ jobs[k].queueing_lock = jobs[j].queueing_lock
       IN  /\ taskCalls' = IF ok
                           THEN Append(taskCalls,
                                  [pr |-> jobs[j].kwargs.pr_number,
                                   trigger |-> trigger_map(jobs[j].kwargs.action),
                                   expected_head_sha |-> <<>>,
                                   head |-> prHead[jobs[j].kwargs.pr_number]])
                           ELSE taskCalls
           /\ \E outcome \in (IF ok THEN {"succeeded"}
                              ELSE IF ~canRetry THEN {"failed"}
                              ELSE IF clash THEN {"failed", "doing"}
                              ELSE {"todo"}) :
                 /\ jobs' = [jobs EXCEPT ![j].status = outcome,
                                         ![j].attempts = @ + 1,
                                         ![j].scheduled_at =
                                             IF outcome = "todo" THEN now ELSE @]
                 /\ worker' = [worker EXCEPT ![w] = 0]
    /\ UNCHANGED <<now, deliveries, prHead>>
    /\ UNCHANGED <<engineVars, libVars>>

Tick ==
    /\ now < MaxTime
    /\ now' = now + 1
    /\ UNCHANGED <<jobs, worker, deliveries, taskCalls, prHead>>
    /\ UNCHANGED <<engineVars, libVars>>


(***************************************************************************)
(* services/diff_parser.py                                                 *)
(*                                                                         *)
(* A diff text is a sequence of lines.  A line is a record whose field k   *)
(* is the class the parser's startswith tests and regular expressions put  *)
(* it in; a path is a sequence of segments, a segment a sequence of        *)
(* characters (a run of characters without wildcard stands for one).       *)
(***************************************************************************)
Missing == -1

DiffLine(old, new) == [k |-> "diff", old |-> old, new |-> new]
DiffLineNoMatch == [k |-> "diffbad"]
HunkLine(os, oc, ns, nc) ==
    [k |-> "@@", old_start |-> os, old_count |-> oc, new_start |-> ns, new_count |-> nc]
HunkLineNoMatch == [k |-> "@@bad"]
Add == [k |-> "+"]
Del == [k |-> "-"]
Ctx == [k |-> " "]
Empty == [k |-> ""]
Other == [k |-> "other"]
NewFileMode == [k |-> "new file mode"]
DeletedFileMode == [k |-> "deleted file mode"]
RenameFrom == [k |-> "rename from"]
BinaryFiles == [k |-> "Binary files"]

FileDiff(old, new) ==
    [old_path |-> old, new_path |-> new, hunks |-> <<>>, is_new |-> FALSE,
     is_deleted |-> FALSE, is_renamed |-> FALSE, is_binary |-> FALSE]

DiffHunk(line) ==
    [old_start |-> line.old_start,
     old_count |-> IF line.old_count = Missing THEN 1 ELSE line.old_count,
     new_start |-> line.new_start,
     new_count |-> IF line.new_count = Missing THEN 1 ELSE line.new_count,
     lines |-> <<>>]

(* Parser state: objs holds the FileDiff objects created so far, files the *)
(* list of references appended to the result, cur the reference held by    *)
(* current_file (0 for None); hunk tells whether current_hunk is set, and  *)
(* it is then the last hunk of the current file.                           *)
ParseStart == [objs |-> <<>>, files |-> <<>>, cur |-> 0, hunk |-> FALSE]

MarkFile(f, line) ==
    IF line.k = "new file mode" THEN [f EXCEPT !.is_new = TRUE]
    ELSE IF line.k = "deleted file mode" THEN [f EXCEPT !.is_deleted = TRUE]
    ELSE IF line.k = "rename from" THEN [f EXCEPT !.is_renamed = TRUE]
    ELSE IF line.k = "Binary files" THEN [f EXCEPT !.is_binary = TRUE]
    ELSE f

AppendToLastHunk(f, line) ==
    [f EXCEPT !.hunks[Len(f.hunks)].lines = Append(@, line)]

(* One iteration of the while loop of parse_diff. *)
ParseLine(st, line) ==
    IF line.k \in {"diff", "diffbad"}
    THEN LET files1 == IF st.cur # 0 THEN Append(st.files, st.cur) ELSE st.files
         IN  IF line.k = "diff"
             THEN [objs |-> Append(st.objs, FileDiff(line.old, line.new)),
                   files |-> files1, cur |-> Len(st.objs) + 1, hunk |-> FALSE]
             ELSE [st EXCEPT !.files = files1, !.hunk = FALSE]
    ELSE LET st1 == IF st.cur # 0
                    THEN [st EXCEPT !.objs[st.cur] = MarkFile(@, line)]
                    ELSE st
         IN  IF line.k \in {"@@", "@@bad"}
             THEN IF line.k = "@@" /\ st1.cur # 0
                  THEN [st1 EXCEPT !.objs[st1.cur].hunks = Append(@, DiffHunk(line)),
                                   !.hunk = TRUE]
                  ELSE st1
             ELSE IF st1.hunk /\ line.k \in {"+", "-", " ", ""}
                  THEN [st1 EXCEPT !.objs[st1.cur] = AppendToLastHunk(@, line)]
                  ELSE st1

RECURSIVE ParseLines(_, _)
ParseLines(st, lines) ==
    IF lines = <<>> THEN st ELSE ParseLines(ParseLine(st, Head(lines)), Tail(lines))

parse_diff(diff_text) ==
    LET st == ParseLines(ParseStart, diff_text)
        refs == IF st.cur # 0 THEN Append(st.files, st.cur) ELSE st.files
    IN  [i \in 1..Len(refs) |-> st.objs[refs[i]]]

(* dict assignment d[k] = v *)
Put(d, key, v) == [x \in DOMAIN d \cup {key} |-> IF x = key THEN v ELSE d[x]]
EmptyDict == [x \in {} |-> 0]

(* Loop state of get_line_positions. *)
RECURSIVE HunkPositions(_, _)
HunkPositions(acc, lines) ==
    IF lines = <<>> THEN acc
    ELSE LET line == Head(lines)
             dp == acc.diff_position + 1
         IN  HunkPositions(
                 IF line.k = "+"
                 THEN [diff_position |-> dp, new_line |-> acc.new_line + 1,
                       positions |-> Put(acc.positions, acc.new_line,
                           [diff_position |-> dp, is_addition |-> TRUE])]
                 ELSE IF line.k = "-"
                 THEN [acc EXCEPT !.diff_position = dp]
                 ELSE [diff_position |-> dp, new_line |-> acc.new_line + 1,
                       positions |-> Put(acc.positions, acc.new_line,
                           [diff_position |-> dp, is_addition |-> FALSE])],
                 Tail(lines))

(* The loop over the hunks without the count of the header line. *)
RECURSIVE FilePositionsNoHeader(_, _)
FilePositionsNoHeader(acc, hunks) ==
    IF hunks = <<>> THEN acc
    ELSE FilePositionsNoHeader(
             HunkPositions([acc EXCEPT !.new_line = Head(hunks).new_start],
                           Head(hunks).lines),
             Tail(hunks))

RECURSIVE FilePositions(_, _)
FilePositions(acc, hunks) ==
    IF hunks = <<>> THEN acc
    ELSE FilePositions(
             HunkPositions([acc EXCEPT !.diff_position = @ + 1,
                                       !.new_line = Head(hunks).new_start],
                           Head(hunks).lines),
             Tail(hunks))

get_line_positions(file_diff) ==
    IF file_diff.is_deleted \/ file_diff.is_binary THEN EmptyDict
    ELSE FilePositions([diff_position |-> 0, new_line |-> 0, positions |-> EmptyDict],
                       file_diff.hunks).positions

RECURSIVE IndexFiles(_, _)
IndexFiles(index, files) ==
    IF files = <<>> THEN index
    ELSE LET f == Head(files)
         IN  IndexFiles(IF ~f.is_binary /\ ~f.is_deleted
                        THEN Put(index, f.new_path, get_line_positions(f))
                        ELSE index,
                        Tail(files))

build_position_index(files) == IndexFiles(EmptyDict, files)

(* fnmatch.fnmatchcase on one path segment: * is any run, ? one character. *)
RECURSIVE FnMatch(_, _)
FnMatch(name, pat) ==
    IF pat = <<>> THEN name = <<>>
    ELSE IF Head(pat) = "*"
         THEN FnMatch(name, Tail(pat)) \/ (name # <<>> /\ FnMatch(Tail(name), pat))
    ELSE IF Head(pat) = "?"
         THEN name # <<>> /\ FnMatch(Tail(name), Tail(pat))
    ELSE name # <<>> /\ Head(name) = Head(pat) /\ FnMatch(Tail(name), Tail(pat))

(* PurePath(path).match(pattern) for a relative pattern: the pattern's     *)
(* segments are matched against the last segments of the path, one         *)
(* segment each.                                                           *)
PurePathMatch(path, pattern) ==
    /\ Len(pattern) <= Len(path)
    /\ \A i \in 1..Len(pattern) :
           FnMatch(path[Len(path) - Len(pattern) + i], pattern[i])

matches_any(path, patterns) ==
    \E i \in 1..Len(patterns) : PurePathMatch(path, patterns[i])

filter_files_by_patterns(files, include_patterns, exclude_patterns) ==
    SelectSeq(files, LAMBDA f :
        /\ ~(include_patterns # <<>> /\ ~matches_any(f.new_path, include_patterns))
        /\ ~(exclude_patterns # <<>> /\ matches_any(f.new_path, exclude_patterns)))

(***************************************************************************)
(* Inputs of the engine: paths, diffs, repository configurations, answers  *)
(* of the AI endpoint.                                                     *)
(***************************************************************************)
MainPy == << <<"src">>, <<"main", ".py">> >>
UtilsPy == << <<"src">>, <<"utils", ".py">> >>
ReadmeMd == << <<"README", ".md">> >>

(* diff of src/main.py: one hunk, a context line, a removal, an addition *)
DiffMain == <<DiffLine(MainPy, MainPy), Other, HunkLine(1, 2, 1, 2), Ctx, Del, Add>>
(* the same followed by a second file with a count-less hunk header *)
DiffTwo == DiffMain \o <<DiffLine(UtilsPy, UtilsPy), HunkLine(5, Missing, 5, Missing), Add>>
(* a top-level file only *)
DiffReadme == <<DiffLine(ReadmeMd, ReadmeMd), HunkLine(1, 1, 1, 2), Ctx, Add>>
(* a deleted file *)
DiffDeleted == <<DiffLine(MainPy, MainPy), DeletedFileMode, HunkLine(1, 2, 0, 0), Del, Del>>
DiffEmpty == <<>>
(* one line more than DiffTwo *)
DiffBig == DiffTwo \o <<Add>>
Diffs == {DiffMain, DiffTwo, DiffReadme, DiffDeleted, DiffEmpty, DiffBig}

(* PathConfig defaults: include ["**/*"], exclude [] *)
DefaultInclude == << << <<"*", "*">>, <<"*">> >> >>
(* include ["*.py"], exclude ["**/utils.py"] *)
PyInclude == << << <<"*", ".py">> >> >>
UtilsExclude == << << <<"*", "*">>, <<"utils", ".py">> >> >>

(* ReviewConfig with its defaults; max_files (1..200, default 50) is taken *)
(* small so that a PR can exceed it.                                       *)
DefaultConfig ==
    [auto_review |-> TRUE, review_on |-> {"opened", "synchronize"}, max_files |-> 2,
     include |-> DefaultInclude, exclude |-> <<>>]
Configs ==
    {DefaultConfig,
     [DefaultConfig EXCEPT !.auto_review = FALSE],
     [DefaultConfig EXCEPT !.include = PyInclude, !.exclude = UtilsExclude,
                           !.review_on = {"opened", "synchronize", "reopened"}]}

(* Settings (config.py), read from the environment.  The size of a diff    *)
(* text is counted in lines.                                               *)
max_diff_size_bytes == 9
input_token_cost_per_million == 300
output_token_cost_per_million == 1500

(* Answers of the AI endpoint: token usage and the comments of the body. *)
AIComment(file, line) == [file |-> file, line |-> line]
Responses ==
    {[input_tokens |-> 1000, output_tokens |-> 100, comments |-> <<>>],
     [input_tokens |-> 1000, output_tokens |-> 100,
      comments |-> <<AIComment(MainPy, 2), AIComment(MainPy, 7)>>],
     [input_tokens |-> 1000000, output_tokens |-> 0,
      comments |-> <<AIComment(UtilsPy, 5), AIComment(MainPy, 1)>>]}

(***************************************************************************)
(* models/review.py                                                        *)
(***************************************************************************)
Triggers == {"pr_opened", "pr_synchronize", "pr_reopened", "command"}
Terminal == {"completed", "failed", "skipped", "superseded"}

NoReview == [status |-> "none"]

(* datetime.utcnow() *)
UtcNow == <<"utcnow">>

(* Review(...) with the column defaults; NULL is 0 for ids, the empty      *)
(* tuple for texts and timestamps.                                         *)
Review(status, trigger, error_message, started_at) ==
    [status |-> status, trigger |-> trigger, head_sha |-> <<>>,
     summary |-> <<>>, risk_level |-> <<>>,
     github_review_id |-> 0, github_check_run_id |-> 0,
     files_reviewed |-> 0, comments_posted |-> 0,
     input_tokens |-> 0, output_tokens |-> 0, cost_cents |-> 0,
     error_message |-> error_message,
     started_at |-> started_at, completed_at |-> <<>>,
     comments |-> <<>>]

(***************************************************************************)
(* services/cost_tracker.py                                                *)
(***************************************************************************)
NoUsage ==
    [exists |-> FALSE, total_input_tokens |-> 0, total_output_tokens |-> 0,
     total_cost_cents |-> 0, total_reviews |-> 0]

(* The floating-point sum of the two costs, truncated by int(); the token  *)
(* counts of the model are exact in floating point.                        *)
calculate_cost_cents(input_tokens, output_tokens) ==
    (input_tokens * input_token_cost_per_million
       + output_tokens * output_token_cost_per_million) \div 1000000

(* check_budget that lets a spend equal to the budget through. *)
check_budget_inclusive(is_active, inst_budget, repo_budget) ==
    IF ~is_active THEN <<FALSE, 0, 0>>
    ELSE LET budget_cents == IF repo_budget # Missing THEN repo_budget ELSE inst_budget
             current_spend == IF usage.exists THEN usage.total_cost_cents ELSE 0
             remaining == budget_cents - current_spend
         IN  <<remaining >= 0, remaining, budget_cents>>

(* check_budget: <<has_budget, remaining_cents, budget_cents>>; usage is   *)
(* the record selected for the installation and the current month.        *)
check_budget(is_active, inst_budget, repo_budget) ==
    IF ~is_active THEN <<FALSE, 0, 0>>
    ELSE LET budget_cents == IF repo_budget # Missing THEN repo_budget ELSE inst_budget
             current_spend == IF usage.exists THEN usage.total_cost_cents ELSE 0
             remaining == budget_cents - current_spend
         IN  <<remaining > 0, remaining, budget_cents>>

(* The upsert of record_usage on (installation_id, year, month). *)
Upsert(u, input_tokens, output_tokens, cost_cents) ==
    [exists |-> TRUE,
     total_input_tokens |-> u.total_input_tokens + input_tokens,
     total_output_tokens |-> u.total_output_tokens + output_tokens,
     total_cost_cents |-> u.total_cost_cents + cost_cents,
     total_reviews |-> u.total_reviews + 1]

(***************************************************************************)
(* services/review_engine.py: ReviewEngine.review_pull_request             *)
(*                                                                         *)
(* One action per stretch of the coroutine between suspension points.  An  *)
(* awaited call either returns or raises: gh_ok, ai_ok and db_ok are the   *)
(* outcomes of the hosting, AI and database calls of the step.  Rows of    *)
(* Installation and Repository can be changed by the admin API between two *)
(* steps, so a step that reads them takes what it reads as an input.       *)
(* The calls of the model follow one another within one calendar month;    *)
(* the row of a call that ended is added to the ledger when the next call  *)
(* starts.                                                                 *)
(***************************************************************************)
IdleRun == [pc |-> "idle"]
(* A check run on the host: its status and conclusion there, and the       *)
(* conclusion of the last update request sent for it ("" when none was).   *)
NoCheckRun == [status |-> "none", conclusion |-> "", sent |-> ""]
NoHostReview == [commit_id |-> <<>>, comments |-> <<>>, posted |-> FALSE]
NoResponse == [input_tokens |-> 0, output_tokens |-> 0, comments |-> <<>>]
NoLedger == [input_tokens |-> 0, output_tokens |-> 0, cost_cents |-> 0, reviews |-> 0]

InProgress == run.pc \notin {"idle", "returned", "raised"}

(* Locals of a call that passed the first three gates; is_enabled is the  *)
(* value of Repository.is_enabled the call read.  diff_head is not a local *)
(* of the code: it records the head the PR had on the host when            *)
(* get_pull_request_diff answered, the commit diff_text is the diff of.    *)
NewRun(pr, trigger, expected, is_enabled, config) ==
    [pc |-> "check_budget", pr |-> pr, trigger |-> trigger,
     expected_head_sha |-> expected, is_enabled |-> is_enabled, config |-> config,
     head |-> <<>>, current |-> <<>>, diff_head |-> <<>>, changed_files |-> 0,
     filtered_files |-> <<>>, github_comments |-> <<>>,
     response |-> NoResponse, exc |-> <<>>]

(* What is left of the locals when the call has returned or raised. *)
Ended(locals, pc, exc) ==
    [pc |-> pc, pr |-> locals.pr, trigger |-> locals.trigger,
     expected_head_sha |-> locals.expected_head_sha,
     is_enabled |-> locals.is_enabled, config |-> locals.config,
     head |-> locals.head, current |-> locals.current, exc |-> exc]

(* An exception that no handler catches: the call ends where it is. *)
RaiseUncaught(locals, exc) == Ended(locals, "raised", exc)

(* An exception raised inside the try block goes to the except clause. *)
Raise(locals, exc) == [locals EXCEPT !.pc = "except", !.exc = exc]

(* trigger_map of review_pull_request *)
TriggerName(trigger) ==
    CASE trigger = "pr_opened" -> "opened"
      [] trigger = "pr_synchronize" -> "synchronize"
      [] trigger = "pr_reopened" -> "reopened"
      [] OTHER -> "None"

(* sha[:8] *)
Short(sha) == SubSeq(sha, 1, 8)

(* The gates without the exemption of the COMMAND trigger from the        *)
(* auto_review gate.                                                       *)
GateReasonAllTriggers(trigger, is_enabled, config) ==
    IF ~is_enabled THEN <<"Reviews disabled for this repository">>
    ELSE IF ~config.auto_review THEN <<"Auto-review disabled">>
    ELSE IF trigger # "command" /\ TriggerName(trigger) \notin config.review_on
         THEN <<"Trigger", trigger, "not enabled">>
    ELSE <<>>

(* The first three gates: the reason of the skip, or <<>>. *)
GateReason(trigger, is_enabled, config) ==
    IF ~is_enabled THEN <<"Reviews disabled for this repository">>
    ELSE IF trigger # "command" /\ ~config.auto_review THEN <<"Auto-review disabled">>
    ELSE IF trigger # "command" /\ TriggerName(trigger) \notin config.review_on
         THEN <<"Trigger", trigger, "not enabled">>
    ELSE <<>>

(* The committed COMPLETED row of the call that ended joins the ledger. *)
Fold(l, row) ==
    IF row.status = "completed"
    THEN [input_tokens |-> l.input_tokens + row.input_tokens,
          output_tokens |-> l.output_tokens + row.output_tokens,
          cost_cents |-> l.cost_cents + row.cost_cents,
          reviews |-> l.reviews + 1]
    ELSE l

(* A skipped row made from the row of a review in progress. *)
CreateSkippedFromInProgress(locals, reason, db_ok) ==
    LET row == Review("skipped", locals.trigger, reason, UtcNow)
    IN  /\ sess' = row
        /\ review' = IF db_ok THEN row ELSE NoReview
        /\ run' = IF db_ok THEN Ended(locals, "returned", <<>>)
                  ELSE Ended(locals, "raised", <<"commit">>)

(* _create_skipped_review: the row is added and committed. *)
CreateSkipped(locals, reason, db_ok) ==
    LET row == Review("skipped", locals.trigger, reason, <<>>)
    IN  /\ sess' = row
        /\ review' = IF db_ok THEN row ELSE NoReview
        /\ run' = IF db_ok THEN Ended(locals, "returned", <<>>)
                  ELSE Ended(locals, "raised", <<"commit">>)

(* Entry of review_pull_request up to the budget check: _get_or_create_repo, *)
(* the is_enabled gate, load_repo_config, the auto_review and review_on      *)
(* gates.                                                                    *)
Enter(pr, trigger, expected, found, is_enabled, config, db_ok) ==
    /\ started' = started + 1
    /\ ledger' = Fold(ledger, review)
    /\ checkRun' = NoCheckRun
    /\ hostReview' = NoHostReview
    /\ issueComments' = 0
    /\ aiCalls' = 0
    /\ LET locals == NewRun(pr, trigger, expected, is_enabled, config)
           reason == GateReason(trigger, is_enabled, config)
       IN  IF ~found
           THEN /\ run' = Ended(locals, "raised", <<"Installation not found">>)
                /\ sess' = NoReview
                /\ review' = NoReview
           ELSE IF reason # <<>>
           THEN CreateSkipped(locals, reason, db_ok)
           ELSE /\ run' = IF db_ok THEN locals ELSE Ended(locals, "raised", <<"commit">>)
                /\ sess' = NoReview
                /\ review' = NoReview
    /\ UNCHANGED <<usage, schedVars, prHead, libVars>>

(* A call of review_pull_request by a task. *)
Start(pr, trigger, expected, found, is_enabled, config, db_ok) ==
    /\ run.pc = "idle"
    /\ started < MaxRuns
    /\ Enter(pr, trigger, expected, found, is_enabled, config, db_ok)
    /\ UNCHANGED replayOf

(* The task of a webhook delivered a second time: one more call for the   *)
(* same PR, with the same trigger and expected head as the call that has   *)
(* just ended; replayOf keeps the head that call published a review for.   *)
Redeliver(found, is_enabled, config, db_ok) ==
    /\ run.pc \in {"returned", "raised"}
    /\ started = MaxRuns
    /\ replayOf' = IF hostReview.posted THEN hostReview.commit_id ELSE <<>>
    /\ Enter(run.pr, run.trigger, run.expected_head_sha, found, is_enabled, config, db_ok)

(* The scheduler runs the job again after the task raised (retry=3): one   *)
(* more call with the arguments of the call that raised; replayOf keeps    *)
(* the head that call published a review for.                              *)
Retry(found, is_enabled, config, db_ok) ==
    /\ run.pc = "raised"
    /\ started = MaxRuns
    /\ replayOf' = IF hostReview.posted THEN hostReview.commit_id ELSE <<>>
    /\ Enter(run.pr, run.trigger, run.expected_head_sha, found, is_enabled, config, db_ok)

(* The task is over: async with async_session_factory() closes the session *)
(* and the locals of the call are gone; what the call committed and did on *)
(* the host stays.                                                         *)
Release ==
    /\ run.pc \in {"returned", "raised"}
    /\ run' = IdleRun
    /\ sess' = NoReview
    /\ review' = NoReview
    /\ ledger' = Fold(ledger, review)
    /\ checkRun' = NoCheckRun
    /\ hostReview' = NoHostReview
    /\ issueComments' = 0
    /\ aiCalls' = 0
    /\ UNCHANGED <<started, usage, schedVars, prHead, replayOf, libVars>>

(* check_budget, then either the budget comment and the skipped row, or the *)
(* Review row in status IN_PROGRESS (session.add, flush).                   *)
CheckBudget(is_active, inst_budget, repo_budget, gh_ok, db_ok) ==
    /\ run.pc = "check_budget"
    /\ LET b == check_budget(is_active, inst_budget, repo_budget)
       IN  IF ~b[1]
           THEN IF ~gh_ok
                THEN /\ run' = Ended(run, "raised", <<"create_issue_comment">>)
                     /\ UNCHANGED <<sess, review, issueComments>>
                ELSE /\ issueComments' = issueComments + 1
                     /\ CreateSkipped(run, <<"Budget exceeded">>, db_ok)
           ELSE /\ UNCHANGED <<review, issueComments>>
                /\ IF db_ok
                   THEN /\ sess' = Review("in_progress", run.trigger, <<>>, UtcNow)
                        /\ run' = [run EXCEPT !.pc = "get_pull_request"]
                   ELSE /\ sess' = sess
                        /\ run' = Ended(run, "raised", <<"flush">>)
    /\ UNCHANGED <<started, usage, ledger, checkRun, hostReview, aiCalls>>
    /\ UNCHANGED <<schedVars, prHead, replayOf, libVars>>

(* gh.get_pull_request and the copy of its fields into the row. *)
GetPullRequest(gh_ok, changed_files) ==
    /\ run.pc = "get_pull_request"
    /\ IF gh_ok
       THEN /\ run' = [run EXCEPT !.pc = "create_check_run",
                                  !.head = prHead[run.pr],
                                  !.changed_files = changed_files]
            /\ sess' = [sess EXCEPT !.head_sha = prHead[run.pr]]
       ELSE /\ run' = Raise(run, <<"get_pull_request">>)
            /\ sess' = sess
    /\ UNCHANGED <<started, review, usage, ledger, checkRun, hostReview,
                   issueComments, aiCalls>>
    /\ UNCHANGED <<schedVars, prHead, replayOf, libVars>>

(* create_check_run followed by a file count test that also stops a PR of  *)
(* exactly max_files files.                                                *)
CreateCheckRunInclusive(gh_ok) ==
    /\ run.pc = "create_check_run"
    /\ IF gh_ok
       THEN /\ checkRun' = [status |-> "in_progress", conclusion |-> "", sent |-> ""]
            /\ sess' = [sess EXCEPT !.github_check_run_id = started]
       ELSE UNCHANGED <<checkRun, sess>>
    /\ run' = [run EXCEPT !.pc =
           IF run.changed_files >= run.config.max_files
           THEN "too_many_files" ELSE "get_diff"]
    /\ UNCHANGED <<started, review, usage, ledger, hostReview, issueComments, aiCalls>>
    /\ UNCHANGED <<schedVars, prHead, replayOf, libVars>>

(* gh.create_check_run in its own try block, then the file count test. *)
CreateCheckRun(gh_ok) ==
    /\ run.pc = "create_check_run"
    /\ IF gh_ok
       THEN /\ checkRun' = [status |-> "in_progress", conclusion |-> "", sent |-> ""]
            /\ sess' = [sess EXCEPT !.github_check_run_id = started]
       ELSE UNCHANGED <<checkRun, sess>>
    /\ run' = [run EXCEPT !.pc =
           IF run.changed_files > run.config.max_files
           THEN "too_many_files" ELSE "get_diff"]
    /\ UNCHANGED <<started, review, usage, ledger, hostReview, issueComments, aiCalls>>
    /\ UNCHANGED <<schedVars, prHead, replayOf, libVars>>

(* A row is marked SKIPPED after its comment was posted, then committed. *)
SkipWithComment(reason, gh_ok, db_ok) ==
    IF ~gh_ok
    THEN /\ run' = Raise(run, <<"create_issue_comment">>)
         /\ UNCHANGED <<sess, review, issueComments>>
    ELSE /\ issueComments' = issueComments + 1
         /\ sess' = [sess EXCEPT !.status = "skipped", !.error_message = reason]
         /\ IF db_ok
            THEN /\ review' = sess'
                 /\ run' = Ended(run, "returned", <<>>)
            ELSE /\ review' = review
                 /\ run' = Raise(run, <<"commit">>)

TooManyFiles(gh_ok, db_ok) ==
    /\ run.pc = "too_many_files"
    /\ SkipWithComment(<<"Too many files", run.changed_files>>, gh_ok, db_ok)
    /\ UNCHANGED <<started, usage, ledger, checkRun, hostReview, aiCalls>>
    /\ UNCHANGED <<schedVars, prHead, replayOf, libVars>>

(* The row is marked SUPERSEDED by the newer head it has seen. *)
Superseded(row, newer) ==
    [row EXCEPT !.status = "superseded",
                !.error_message = <<"Superseded by newer commit", Short(newer)>>,
                !.completed_at = UtcNow]

(* GetDiff without the exit for an empty list of files: the review goes on *)
(* with nothing to review.                                                 *)
GetDiffKeepsEmpty(gh_ok, diff_text) ==
    /\ run.pc = "get_diff"
    /\ LET filtered_files == filter_files_by_patterns(
               parse_diff(diff_text), run.config.include, run.config.exclude)
           fetched == [run EXCEPT !.diff_head = prHead[run.pr]]
       IN  IF ~gh_ok
           THEN /\ run' = Raise(run, <<"get_pull_request_diff">>)
                /\ sess' = sess
           ELSE IF Len(diff_text) > max_diff_size_bytes
           THEN /\ run' = [fetched EXCEPT !.pc = "diff_too_large"]
                /\ sess' = sess
           ELSE IF run.expected_head_sha # <<>> /\ run.expected_head_sha # run.head
           THEN /\ run' = [fetched EXCEPT !.pc = "finalize",
                                      !.filtered_files = filtered_files]
                /\ sess' = Superseded([sess EXCEPT !.files_reviewed = Len(filtered_files)],
                                      run.head)
           ELSE /\ run' = [fetched EXCEPT !.pc = "refetch",
                                      !.filtered_files = filtered_files]
                /\ sess' = [sess EXCEPT !.files_reviewed = Len(filtered_files)]
    /\ UNCHANGED <<started, review, usage, ledger, checkRun, hostReview,
                   issueComments, aiCalls>>
    /\ UNCHANGED <<schedVars, prHead, replayOf, libVars>>

(* gh.get_pull_request_diff, the size test, parse_diff and the path        *)
(* filter, the row of a PR without files left, _load_context_files (best   *)
(* effort, no effect on the row) and the test of expected_head_sha.        *)
GetDiff(gh_ok, diff_text) ==
    /\ run.pc = "get_diff"
    /\ LET filtered_files == filter_files_by_patterns(
               parse_diff(diff_text), run.config.include, run.config.exclude)
           fetched == [run EXCEPT !.diff_head = prHead[run.pr]]
       IN  IF ~gh_ok
           THEN /\ run' = Raise(run, <<"get_pull_request_diff">>)
                /\ sess' = sess
           ELSE IF Len(diff_text) > max_diff_size_bytes
           THEN /\ run' = [fetched EXCEPT !.pc = "diff_too_large"]
                /\ sess' = sess
           ELSE IF filtered_files = <<>>
           THEN /\ run' = [fetched EXCEPT !.pc = "commit"]
                /\ sess' = [sess EXCEPT
                       !.status = "completed",
                       !.summary = <<"No files to review after applying path filters.">>,
                       !.risk_level = <<"low">>]
           ELSE IF run.expected_head_sha # <<>> /\ run.expected_head_sha # run.head
           THEN /\ run' = [fetched EXCEPT !.pc = "finalize",
                                      !.filtered_files = filtered_files]
                /\ sess' = Superseded([sess EXCEPT !.files_reviewed = Len(filtered_files)],
                                      run.head)
           ELSE /\ run' = [fetched EXCEPT !.pc = "refetch",
                                      !.filtered_files = filtered_files]
                /\ sess' = [sess EXCEPT !.files_reviewed = Len(filtered_files)]
    /\ UNCHANGED <<started, review, usage, ledger, checkRun, hostReview,
                   issueComments, aiCalls>>
    /\ UNCHANGED <<schedVars, prHead, replayOf, libVars>>

DiffTooLarge(gh_ok, db_ok) ==
    /\ run.pc = "diff_too_large"
    /\ SkipWithComment(<<"Diff too large">>, gh_ok, db_ok)
    /\ UNCHANGED <<started, usage, ledger, checkRun, hostReview, aiCalls>>
    /\ UNCHANGED <<schedVars, prHead, replayOf, libVars>>

(* session.commit() and return, for the row of a PR without files left. *)
Commit(db_ok) ==
    /\ run.pc = "commit"
    /\ IF db_ok
       THEN /\ review' = sess
            /\ run' = Ended(run, "returned", <<>>)
       ELSE /\ review' = review
            /\ run' = Raise(run, <<"commit">>)
    /\ UNCHANGED <<started, sess, usage, ledger, checkRun, hostReview,
                   issueComments, aiCalls>>
    /\ UNCHANGED <<schedVars, prHead, replayOf, libVars>>

(* Refetch without the comparison of the two heads. *)
RefetchNoCompare(gh_ok) ==
    /\ run.pc = "refetch"
    /\ IF ~gh_ok
       THEN /\ run' = Raise(run, <<"get_pull_request">>)
            /\ sess' = sess
       ELSE /\ run' = [run EXCEPT !.pc = "review_diff", !.current = prHead[run.pr]]
            /\ sess' = sess
    /\ UNCHANGED <<started, review, usage, ledger, checkRun, hostReview,
                   issueComments, aiCalls>>
    /\ UNCHANGED <<schedVars, prHead, replayOf, libVars>>

(* The second gh.get_pull_request, right before the AI call. *)
Refetch(gh_ok) ==
    /\ run.pc = "refetch"
    /\ LET current == prHead[run.pr]
       IN  IF ~gh_ok
           THEN /\ run' = Raise(run, <<"get_pull_request">>)
                /\ sess' = sess
           ELSE IF current # run.head
           THEN /\ run' = [run EXCEPT !.pc = "finalize", !.current = current]
                /\ sess' = Superseded(sess, current)
           ELSE /\ run' = [run EXCEPT !.pc = "review_diff", !.current = current]
                /\ sess' = sess
    /\ UNCHANGED <<started, review, usage, ledger, checkRun, hostReview,
                   issueComments, aiCalls>>
    /\ UNCHANGED <<schedVars, prHead, replayOf, libVars>>

(* The loop without the test of the line: a line that is not in the diff   *)
(* gets position 1.                                                        *)
RECURSIVE MapCommentsAnyLine(_, _)
MapCommentsAnyLine(comments, position_index) ==
    IF comments = <<>> THEN <<>>
    ELSE LET c == Head(comments)
             rest == MapCommentsAnyLine(Tail(comments), position_index)
         IN  IF c.file \in DOMAIN position_index
             THEN <<[path |-> c.file, line |-> c.line,
                     position |-> IF c.line \in DOMAIN position_index[c.file]
                                  THEN position_index[c.file][c.line].diff_position
                                  ELSE 1]>>
                  \o rest
             ELSE rest

(* The loop over claude_response.comments: the comments whose file and     *)
(* line are in the position index, with the position found there.          *)
RECURSIVE MapComments(_, _)
MapComments(comments, position_index) ==
    IF comments = <<>> THEN <<>>
    ELSE LET c == Head(comments)
             rest == MapComments(Tail(comments), position_index)
         IN  IF /\ c.file \in DOMAIN position_index
                /\ c.line \in DOMAIN position_index[c.file]
             THEN <<[path |-> c.file, line |-> c.line,
                     position |-> position_index[c.file][c.line].diff_position]>>
                  \o rest
             ELSE rest

(* claude.review_diff, calculate_cost_cents, the fields of the row set     *)
(* from the answer, the position index and the comments added to the       *)
(* session.                                                                *)
ReviewDiff(ai_ok, response) ==
    /\ run.pc = "review_diff"
    /\ aiCalls' = aiCalls + 1
    /\ IF ~ai_ok
       THEN /\ run' = Raise(run, <<"review_diff">>)
            /\ sess' = sess
       ELSE LET github_comments ==
                    MapComments(response.comments,
                                build_position_index(run.filtered_files))
            IN  /\ run' = [run EXCEPT !.pc = "create_review",
                                      !.response = response,
                                      !.github_comments = github_comments]
                /\ sess' = [sess EXCEPT
                       !.input_tokens = response.input_tokens,
                       !.output_tokens = response.output_tokens,
                       !.cost_cents = calculate_cost_cents(response.input_tokens,
                                                           response.output_tokens),
                       !.summary = <<"summary">>,
                       !.risk_level = <<"medium">>,
                       !.comments = github_comments]
    /\ UNCHANGED <<started, review, usage, ledger, checkRun, hostReview, issueComments>>
    /\ UNCHANGED <<schedVars, prHead, replayOf, libVars>>

(* create_review with a third look at the head of the PR, after the AI     *)
(* call: the row is marked SUPERSEDED with the usage of the call on it.    *)
CreateReviewCheckHead(gh_ok, enable_line_comments) ==
    /\ run.pc = "create_review"
    /\ IF ~gh_ok
       THEN /\ run' = Raise(run, <<"create_review">>)
            /\ UNCHANGED <<sess, hostReview>>
       ELSE IF prHead[run.pr] # run.head
       THEN /\ sess' = Superseded(sess, prHead[run.pr])
            /\ run' = [run EXCEPT !.pc = "finalize"]
            /\ UNCHANGED hostReview
       ELSE /\ hostReview' =
                   [commit_id |-> run.head,
                    comments |-> IF enable_line_comments /\ run.github_comments # <<>>
                                 THEN run.github_comments ELSE <<>>,
                    posted |-> TRUE]
            /\ sess' = [sess EXCEPT !.github_review_id = started,
                                    !.comments_posted = Len(run.github_comments),
                                    !.status = "completed",
                                    !.completed_at = UtcNow]
            /\ run' = [run EXCEPT !.pc = "record_usage"]
    /\ UNCHANGED <<started, review, usage, ledger, checkRun, issueComments, aiCalls>>
    /\ UNCHANGED <<schedVars, prHead, replayOf, libVars>>

(* gh.create_review, with the inline comments when settings allow them and *)
(* there are some; the row becomes COMPLETED.                              *)
CreateReview(gh_ok, enable_line_comments) ==
    /\ run.pc = "create_review"
    /\ IF ~gh_ok
       THEN /\ run' = Raise(run, <<"create_review">>)
            /\ UNCHANGED <<sess, hostReview>>
       ELSE /\ hostReview' =
                   [commit_id |-> run.head,
                    comments |-> IF enable_line_comments /\ run.github_comments # <<>>
                                 THEN run.github_comments ELSE <<>>,
                    posted |-> TRUE]
            /\ sess' = [sess EXCEPT !.github_review_id = started,
                                    !.comments_posted = Len(run.github_comments),
                                    !.status = "completed",
                                    !.completed_at = UtcNow]
            /\ run' = [run EXCEPT !.pc = "record_usage"]
    /\ UNCHANGED <<started, review, usage, ledger, checkRun, issueComments, aiCalls>>
    /\ UNCHANGED <<schedVars, prHead, replayOf, libVars>>

(* record_usage called with the input tokens in the place of the output    *)
(* tokens.                                                                 *)
record_usage_swapped(db_ok) ==
    /\ run.pc = "record_usage"
    /\ \A w \in Workers : txn.sessions[w].pc # "executed"
    /\ IF ~db_ok
       THEN /\ run' = Raise(run, <<"record_usage">>)
            /\ UNCHANGED <<usage, review>>
       ELSE /\ usage' = Upsert(usage, run.response.input_tokens,
                               run.response.input_tokens, sess.cost_cents)
            /\ review' = sess
            /\ run' = [run EXCEPT !.pc = "finalize"]
    /\ UNCHANGED <<started, sess, ledger, checkRun, hostReview, issueComments, aiCalls>>
    /\ UNCHANGED <<schedVars, prHead, replayOf, libVars>>

(* record_usage: the upsert and the commit of the session, which also      *)
(* writes the row of the review.  The upsert waits while the session of    *)
(* another review holds the lock of the UsageRecord.                       *)
record_usage(db_ok) ==
    /\ run.pc = "record_usage"
    /\ \A w \in Workers : txn.sessions[w].pc # "executed"
    /\ IF ~db_ok
       THEN /\ run' = Raise(run, <<"record_usage">>)
            /\ UNCHANGED <<usage, review>>
       ELSE /\ usage' = Upsert(usage, run.response.input_tokens,
                               run.response.output_tokens, sess.cost_cents)
            /\ review' = sess
            /\ run' = [run EXCEPT !.pc = "finalize"]
    /\ UNCHANGED <<started, sess, ledger, checkRun, hostReview, issueComments, aiCalls>>
    /\ UNCHANGED <<schedVars, prHead, replayOf, libVars>>

(* conclusion_map of _update_check_run *)
Conclusion(status) ==
    CASE status = "completed" -> "success"
      [] status = "failed" -> "failure"
      [] status = "skipped" -> "skipped"
      [] status = "superseded" -> "cancelled"
      [] OTHER -> "neutral"

(* _update_check_run: nothing without a check run id; a failure of the     *)
(* call is logged and swallowed.                                           *)
UpdateCheckRun(row, gh_ok) ==
    IF row.github_check_run_id = 0 THEN checkRun
    ELSE IF gh_ok
    THEN [status |-> "completed", conclusion |-> Conclusion(row.status),
          sent |-> Conclusion(row.status)]
    ELSE [checkRun EXCEPT !.sent = Conclusion(row.status)]

(* _update_check_run, session.commit() and return: the end of a superseded *)
(* and of a completed review.                                              *)
Finalize(gh_ok, db_ok) ==
    /\ run.pc = "finalize"
    /\ checkRun' = UpdateCheckRun(sess, gh_ok)
    /\ IF db_ok
       THEN /\ review' = sess
            /\ run' = Ended(run, "returned", <<>>)
       ELSE /\ review' = review
            /\ run' = Raise(run, <<"commit">>)
    /\ UNCHANGED <<started, sess, usage, ledger, hostReview, issueComments, aiCalls>>
    /\ UNCHANGED <<schedVars, prHead, replayOf, libVars>>

(* An except clause that leaves completed_at as it is. *)
ExceptNoTimestamp(gh_ok, db_ok) ==
    /\ run.pc = "except"
    /\ sess' = [sess EXCEPT !.status = "failed", !.error_message = run.exc]
    /\ checkRun' = UpdateCheckRun(sess', gh_ok)
    /\ review' = IF db_ok THEN sess' ELSE review
    /\ run' = Ended(run, "raised", IF db_ok THEN run.exc ELSE <<"commit in except">>)
    /\ UNCHANGED <<started, usage, ledger, hostReview, issueComments, aiCalls>>
    /\ UNCHANGED <<schedVars, prHead, replayOf, libVars>>

(* except Exception: the row becomes FAILED, the check run is updated when *)
(* the row has one, the session is committed and the exception re-raised.  *)
Except(gh_ok, db_ok) ==
    /\ run.pc = "except"
    /\ sess' = [sess EXCEPT !.status = "failed",
                            !.error_message = run.exc,
                            !.completed_at = UtcNow]
    /\ checkRun' = UpdateCheckRun(sess', gh_ok)
    /\ review' = IF db_ok THEN sess' ELSE review
    /\ run' = Ended(run, "raised", IF db_ok THEN run.exc ELSE <<"commit in except">>)
    /\ UNCHANGED <<started, usage, ledger, hostReview, issueComments, aiCalls>>
    /\ UNCHANGED <<schedVars, prHead, replayOf, libVars>>

(* The task is cancelled while the call waits at a suspension point after  *)
(* the Review row was added: asyncio.CancelledError is a BaseException,    *)
(* which except Exception does not catch, so the call ends where it is.    *)
Cancel ==
    /\ InProgress
    /\ run.pc # "check_budget"
    /\ run' = RaiseUncaught(run, <<"CancelledError">>)
    /\ UNCHANGED <<started, sess, review, usage, ledger, checkRun, hostReview,
                   issueComments, aiCalls>>
    /\ UNCHANGED <<schedVars, prHead, replayOf, libVars>>

(***************************************************************************)
(* Environment of the engine: a push moves the head of the PR under        *)
(* review.                                                                 *)
(***************************************************************************)
Push(pr, sha) ==
    /\ InProgress
    /\ run.pr = pr
    /\ sha # prHead[pr]
    /\ prHead' = [prHead EXCEPT ![pr] = sha]
    /\ UNCHANGED <<schedVars, engineVars, libVars>>


(* The commits of a PR in the order in which they are pushed to it when    *)
(* its head never returns to an earlier commit, and a push of that kind.   *)
PushOrder == <<ShaA, ShaB>>
PushRank(sha) == CHOOSE i \in DOMAIN PushOrder : PushOrder[i] = sha

PushForward(pr, sha) ==
    /\ PushRank(sha) > PushRank(prHead[pr])
    /\ Push(pr, sha)

(***************************************************************************)
(* Calls of the functions of the services.  call holds the function, its   *)
(* argument and, once the function was applied, what it returned.          *)
(***************************************************************************)
NoCall == [op |-> "none", arg |-> <<>>, done |-> FALSE, res |-> <<>>]
NewCall(op, arg) == [op |-> op, arg |-> arg, done |-> FALSE, res |-> <<>>]

(* dict.get(key, default) *)
Get(d, key, default) == IF key \in DOMAIN d THEN d[key] ELSE default

(***************************************************************************)
(* services/claude_client.py: ClaudeClient.review_diff, from the answer of *)
(* the endpoint on.                                                        *)
(*                                                                         *)
(* The text of an answer is a sequence of parts: the code block markers    *)
(* (three backticks, alone or followed by json) and the runs of text       *)
(* between them, each in the class json.loads puts it in.                  *)
(***************************************************************************)
Fence == [k |-> "fence"]
JsonFence == [k |-> "fence json"]
JObject(fields) == [k |-> "object", fields |-> fields]
JArray == [k |-> "array"]
JNull == [k |-> "null"]
JText == [k |-> "text"]
JBlank == [k |-> "blank"]
JSONDecodeError == [k |-> "JSONDecodeError"]

(* response_text[:500]; the model keeps the first parts of the text. *)
raw_excerpt_length == 2

(* Index of the first part of kind k, or 0. *)
Find(parts, k) ==
    IF \E i \in 1..Len(parts) : parts[i].k = k
    THEN CHOOSE i \in 1..Len(parts) :
             parts[i].k = k /\ \A j \in 1..(i - 1) : parts[j].k # k
    ELSE 0

(* text.split(k)[0] and what follows the first k *)
Before(parts, k) ==
    IF Find(parts, k) = 0 THEN parts ELSE SubSeq(parts, 1, Find(parts, k) - 1)
After(parts, k) == SubSeq(parts, Find(parts, k) + 1, Len(parts))

(* The two branches on markdown code blocks; a split on the bare marker    *)
(* also splits at a marker followed by json.                               *)
StripFence(response_text) ==
    IF Find(response_text, "fence json") # 0
    THEN Before(Before(After(response_text, "fence json"), "fence json"), "fence")
    ELSE IF Find(response_text, "fence") # 0
    THEN Before(After(response_text, "fence"), "fence")
    ELSE response_text

(* json.loads(text.strip()): one JSON value with blanks around it. *)
json_loads(text) ==
    LET values == SelectSeq(text, LAMBDA part : part.k # "blank")
    IN  IF Len(values) = 1 /\ values[1].k \in {"object", "array", "null"}
        THEN values[1]
        ELSE JSONDecodeError

(* What review_diff returns, or the exception it raises. *)
ClaudeReviewResponse(summary, risk_level, comments, input_tokens, output_tokens) ==
    [raised |-> "", summary |-> summary, risk_level |-> risk_level,
     comments |-> comments, input_tokens |-> input_tokens,
     output_tokens |-> output_tokens]

review_diff(response) ==
    LET response_text == StripFence(response.text)
        decoded == json_loads(response_text)
        data == IF decoded = JSONDecodeError
                THEN JObject([summary |->
                                 <<"Failed to parse structured response. Raw output: ",
                                   SubSeq(response_text, 1,
                                          IF Len(response_text) < raw_excerpt_length
                                          THEN Len(response_text)
                                          ELSE raw_excerpt_length)>>,
                              risk_level |-> "medium",
                              comments |-> <<>>])
                ELSE decoded
    IN  IF data.k # "object"
        THEN [raised |-> "AttributeError"]
        ELSE ClaudeReviewResponse(Get(data.fields, "summary", ""),
                                  Get(data.fields, "risk_level", "medium"),
                                  Get(data.fields, "comments", <<>>),
                                  response.input_tokens, response.output_tokens)

(* Answers of the endpoint: texts of at most MaxParts parts. *)
GoodObject ==
    JObject([summary |-> "Brief summary of the PR", risk_level |-> "high",
             comments |-> <<AIComment(MainPy, 2)>>])
BareObject == JObject([summary |-> "Brief summary of the PR"])
TextParts == {Fence, JsonFence, GoodObject, BareObject, JArray, JNull, JText, JBlank}
Texts == UNION {[1..n -> TextParts] : n \in 0..MaxParts}
AIResponses == {[text |-> t, input_tokens |-> 1000, output_tokens |-> 100] : t \in Texts}

ApplyReviewDiff ==
    /\ call.op = "review_diff"
    /\ ~call.done
    /\ call' = [call EXCEPT !.done = TRUE, !.res = review_diff(call.arg)]
    /\ UNCHANGED <<schedVars, prHead, engineVars, token_cache, client, host, txn>>

(***************************************************************************)
(* services/comment_commands.py                                            *)
(*                                                                         *)
(* A comment body is a sequence of parts: a phrase (a mention or a trigger *)
(* phrase as written, word by word), a run of word characters, a run of    *)
(* other characters, blanks, a line break.  No trigger begins or ends      *)
(* inside a part of another kind.                                          *)
(***************************************************************************)
Phrase(words) == [k |-> "phrase", words |-> words]
Wd(text) == [k |-> "word", text |-> text]
Pn(text) == [k |-> "punct", text |-> text]
Sp == [k |-> "space"]
Nl == [k |-> "newline"]

(* settings.bot_triggers *)
bot_triggers == << <<"@reviewer">>, <<"@procrasturbate">>, <<"it's", "gooning", "time">> >>

(* class CommandType *)
CommandTypes == {"review", "explain", "security", "ignore", "config", "help"}

(* str.lower() on the texts of the model *)
lower(text) ==
    CASE text = "REVIEW" -> "review"
      [] text = "Help" -> "help"
      [] text = "@REVIEWER" -> "@reviewer"
      [] text = "IT'S" -> "it's"
      [] text = "GOONING" -> "gooning"
      [] text = "TIME" -> "time"
      [] OTHER -> text
LowerAll(texts) == [i \in 1..Len(texts) |-> lower(texts[i])]

ParsedCommand(command_type, args, raw_text) ==
    [command_type |-> command_type, args |-> args, raw_text |-> raw_text]
None == [k |-> "None"]

(* The trigger group of the pattern under re.IGNORECASE. *)
IsTrigger(part) ==
    /\ part.k = "phrase"
    /\ \E i \in 1..Len(bot_triggers) : LowerAll(part.words) = bot_triggers[i]

IsSpace(part) == part.k \in {"space", "newline"}

(* A phrase whose first character is a word character: \w+ goes on into it *)
(* up to its first other character ("it" of "it's").                       *)
WordLead(part) == part.k = "phrase" /\ lower(part.words[1]) = "it's"

(* Number of parts from position i on whose kind is one of kinds. *)
RECURSIVE RunLength(_, _, _)
RunLength(body, i, kinds) ==
    IF i <= Len(body) /\ body[i].k \in kinds
    THEN 1 + RunLength(body, i + 1, kinds) ELSE 0

(* \s, \w and . as classes of parts *)
SpaceKinds == {"space", "newline"}
WordKinds == {"word"}
DotKinds == {"phrase", "word", "punct", "space"}

(* The groups of the pattern for a match that begins at part i, or None:   *)
(* trigger, \s+, (\w+) and the optional \s+ (.+), each as long as it can   *)
(* be.  Group 1 is the list of the runs the word is made of.  Group 2 is   *)
(* the rest of the line that begins after the blanks; when it took no part *)
(* in the match or is blank it is empty here: args is empty in both cases. *)
Groups(body, i) ==
    LET j == i + 1 + RunLength(body, i + 1, SpaceKinds)
        n == RunLength(body, j, WordKinds)
        e == j + n
        into == e <= Len(body) /\ WordLead(body[e])
        word == [x \in 1..n |-> body[j + x - 1].text] \o (IF into THEN <<"it">> ELSE <<>>)
        a == e + RunLength(body, e, SpaceKinds)
        line == SubSeq(body, a, a + RunLength(body, a, DotKinds) - 1)
    IN  IF ~IsTrigger(body[i]) \/ j = i + 1 \/ word = <<>> THEN None
        ELSE [g1 |-> word,
              g2 |-> IF into \/ a = e THEN <<>> ELSE line]

(* str.split(): the runs between blanks; a run is the list of its pieces. *)
RECURSIVE Split(_, _, _)
Split(acc, cur, parts) ==
    LET flush == IF cur = <<>> THEN acc ELSE Append(acc, cur)
    IN  IF parts = <<>> THEN flush
        ELSE LET p == Head(parts)
             IN  IF IsSpace(p) THEN Split(flush, <<>>, Tail(parts))
                 ELSE IF p.k = "phrase"
                 THEN IF Len(p.words) = 1
                      THEN Split(acc, Append(cur, p.words[1]), Tail(parts))
                      ELSE Split(Append(acc, Append(cur, p.words[1]))
                                   \o [x \in 1..(Len(p.words) - 2) |-> <<p.words[x + 1]>>],
                                 <<p.words[Len(p.words)]>>, Tail(parts))
                 ELSE Split(acc, Append(cur, p.text), Tail(parts))

(* parse_command with the command word compared as it is written. *)
parse_command_as_written(comment_body) ==
    LET starts == {i \in 1..Len(comment_body) : Groups(comment_body, i) # None}
    IN  IF starts = {} THEN None
        ELSE LET match == Groups(comment_body,
                              CHOOSE i \in starts : \A x \in starts : i <= x)
                 command_str == match.g1
                 args_str == match.g2
             IN  IF Len(command_str) # 1 \/ command_str[1] \notin CommandTypes
                 THEN ParsedCommand("help", <<>>, comment_body)
                 ELSE ParsedCommand(command_str[1],
                                    IF args_str # <<>> THEN Split(<<>>, <<>>, args_str)
                                    ELSE <<>>,
                                    comment_body)

(* parse_command: pattern.search finds the leftmost match. *)
parse_command(comment_body) ==
    LET starts == {i \in 1..Len(comment_body) : Groups(comment_body, i) # None}
    IN  IF starts = {} THEN None
        ELSE LET match == Groups(comment_body,
                              CHOOSE i \in starts : \A x \in starts : i <= x)
                 command_str == LowerAll(match.g1)
                 args_str == match.g2
             IN  IF Len(command_str) # 1 \/ command_str[1] \notin CommandTypes
                 THEN ParsedCommand("help", <<>>, comment_body)
                 ELSE ParsedCommand(command_str[1],
                                    IF args_str # <<>> THEN Split(<<>>, <<>>, args_str)
                                    ELSE <<>>,
                                    comment_body)

(* Comment bodies: a beginning, then at most MaxBody more parts. *)
BodyParts ==
    {Phrase(<<"@reviewer">>), Phrase(<<"IT'S", "GOONING", "TIME">>), Sp, Nl,
     Wd("review"), Wd("REVIEW"), Wd("unknown_command"), Pn("/")}
BodyHeads ==
    {<<>>, <<Phrase(<<"@reviewer">>), Sp>>, <<Phrase(<<"@procrasturbate">>), Sp>>,
     <<Phrase(<<"it's", "gooning", "time">>), Sp>>,
     <<Phrase(<<"@REVIEWER">>), Sp, Wd("review")>>,
     <<Phrase(<<"@reviewer">>), Sp, Wd("review"), Sp, Wd("src"), Pn("/")>>,
     <<Phrase(<<"@someone">>), Sp, Wd("review"), Sp, Phrase(<<"@reviewer">>), Nl>>}
Bodies ==
    {h \o t : h \in BodyHeads, t \in UNION {[1..n -> BodyParts] : n \in 0..MaxBody}}

ApplyParseCommand ==
    /\ call.op = "parse_command"
    /\ ~call.done
    /\ call' = [call EXCEPT !.done = TRUE, !.res = parse_command(call.arg)]
    /\ UNCHANGED <<schedVars, prHead, engineVars, token_cache, client, host, txn>>

(***************************************************************************)
(* Calls of get_line_positions and filter_files_by_patterns                *)
(* (services/diff_parser.py) on FileDiff objects.                          *)
(***************************************************************************)
DocsMd == << <<"docs">>, <<"a", ".md">> >>
SrcPyInclude == << <<"src">>, <<"*", "*">>, <<"*", ".py">> >>
MainInclude == << <<"*", "*">>, <<"main", ".py">> >>

(* Contents of a hunk: at most MaxHunkLines lines. *)
HunkLines == UNION {[1..n -> {Add, Del, Ctx, Empty}] : n \in 0..MaxHunkLines}
Hunk(new_start, lines) ==
    [old_start |-> new_start, old_count |-> 1, new_start |-> new_start,
     new_count |-> 1, lines |-> lines]

(* FileDiff objects with no hunk, one hunk at line 1, or that hunk and one *)
(* at line 10, with the flags a file header can set.                       *)
FileDiffs ==
    {[FileDiff(MainPy, MainPy) EXCEPT !.hunks = h, !.is_deleted = d, !.is_binary = b] :
        h \in {<<>>} \cup {<<Hunk(1, l)>> : l \in HunkLines}
                     \cup {<<Hunk(1, l1), Hunk(10, l2)>> : l1 \in HunkLines, l2 \in HunkLines},
        d \in BOOLEAN, b \in BOOLEAN}

FilterCalls ==
    {[files |-> f, include_patterns |-> i, exclude_patterns |-> e] :
        f \in {<<FileDiff(MainPy, MainPy), FileDiff(UtilsPy, UtilsPy), FileDiff(DocsMd, DocsMd)>>,
               <<FileDiff(ReadmeMd, ReadmeMd), FileDiff(MainPy, MainPy)>>,
               <<FileDiff(UtilsPy, UtilsPy)>>, <<>>},
        i \in {<<>>, <<SrcPyInclude>>, DefaultInclude, PyInclude, <<MainInclude>>,
               <<SrcPyInclude, MainInclude>>},
        e \in {<<>>, UtilsExclude, <<MainInclude>>, DefaultInclude}}

(***************************************************************************)
(* services/config_loader.py                                               *)
(***************************************************************************)
(* CONFIG_CACHE_TTL = timedelta(minutes=5), in minutes *)
CONFIG_CACHE_TTL == 5

(* load_repo_config for a repository that has a row: config_yaml is the    *)
(* cached config (None when there is none), cache_age the time since       *)
(* config_fetched_at, fetched what get_file_content and the parsing give:  *)
(* a config, or None when one of them raises.  The result is the config    *)
(* returned and the config_yaml the row is left with.                      *)
load_repo_config(config_yaml, cache_age, fetched) ==
    IF config_yaml # None /\ cache_age < CONFIG_CACHE_TTL
    THEN [config |-> config_yaml, config_yaml |-> config_yaml]
    ELSE LET config == IF fetched = None THEN DefaultConfig ELSE fetched
         IN  [config |-> config, config_yaml |-> config]

(* Calls made while the cache of the repository holds nothing or the       *)
(* config of the file, of any age, for a file that turns auto_review off   *)
(* or leaves the defaults, with a fetch that succeeds or raises.           *)
ConfigCalls ==
    {a \in [file : {[DefaultConfig EXCEPT !.auto_review = FALSE], DefaultConfig},
            config_yaml : {None, [DefaultConfig EXCEPT !.auto_review = FALSE], DefaultConfig},
            cache_age : {0, CONFIG_CACHE_TTL - 1, CONFIG_CACHE_TTL, CONFIG_CACHE_TTL + 1},
            fetch_ok : BOOLEAN, trigger : Triggers] :
        a.config_yaml \in {None, a.file}}

ApplyLoadRepoConfig ==
    /\ call.op = "load_repo_config"
    /\ ~call.done
    /\ call' = [call EXCEPT !.done = TRUE,
                            !.res = load_repo_config(call.arg.config_yaml,
                                        call.arg.cache_age,
                                        IF call.arg.fetch_ok THEN call.arg.file ELSE None)]
    /\ UNCHANGED <<schedVars, prHead, engineVars, token_cache, client, host, txn>>

(* Diff texts of one file: its header, a hunk header and at most           *)
(* MaxHunkLines lines after it, of any kind the parser tells apart.        *)
DiffTexts ==
    {<<DiffLine(MainPy, MainPy), HunkLine(1, 1, 1, 1)>> \o body :
        body \in UNION {[1..n -> {Add, Del, Ctx, Empty, Other, NewFileMode,
                                  HunkLine(10, 1, 10, 1)}] :
                           n \in 0..MaxHunkLines}}

ApplyParseDiff ==
    /\ call.op = "parse_diff"
    /\ ~call.done
    /\ call' = [call EXCEPT !.done = TRUE, !.res = parse_diff(call.arg)]
    /\ UNCHANGED <<schedVars, prHead, engineVars, token_cache, client, host, txn>>

ApplyGetLinePositions ==
    /\ call.op = "get_line_positions"
    /\ ~call.done
    /\ call' = [call EXCEPT !.done = TRUE, !.res = get_line_positions(call.arg)]
    /\ UNCHANGED <<schedVars, prHead, engineVars, token_cache, client, host, txn>>

ApplyFilterFiles ==
    /\ call.op = "filter_files_by_patterns"
    /\ ~call.done
    /\ call' = [call EXCEPT !.done = TRUE,
                            !.res = filter_files_by_patterns(call.arg.files,
                                        call.arg.include_patterns,
                                        call.arg.exclude_patterns)]
    /\ UNCHANGED <<schedVars, prHead, engineVars, token_cache, client, host, txn>>

(***************************************************************************)
(* utils/github_auth.py and services/github_client.py                      *)
(*                                                                         *)
(* Tokens are numbered in the order the host issues them.  The host        *)
(* answers 401 to a request that carries a token it no longer accepts.     *)
(***************************************************************************)
(* expires_at = time.time() + 3500 and the 60 second buffer, in ticks *)
token_lifetime == 3
expiry_buffer == 1

NoToken == [token |-> 0, expires_at |-> 0]
NoClient == [pc |-> "closed", token |-> 0, requests |-> 0, status |-> 0, outcome |-> ""]
NoHost == [issued |-> 0, revoked |-> {}]

(* get_installation_token: the cached token while it is fresh, or a new    *)
(* one from the host, which is cached.                                     *)
CacheFresh == token_cache # NoToken /\ now < token_cache.expires_at - expiry_buffer

(* GitHubClient.__aenter__ *)
aenter ==
    /\ client.pc = "closed"
    /\ IF CacheFresh
       THEN /\ client' = [NoClient EXCEPT !.pc = "open", !.token = token_cache.token]
            /\ UNCHANGED <<token_cache, host>>
       ELSE /\ host.issued < MaxTokens
            /\ host' = [host EXCEPT !.issued = @ + 1]
            /\ token_cache' = [token |-> host.issued + 1,
                               expires_at |-> now + token_lifetime]
            /\ client' = [NoClient EXCEPT !.pc = "open", !.token = host.issued + 1]
    /\ UNCHANGED <<schedVars, prHead, engineVars, call, txn>>

(* GitHubClient.get_pull_request: one request with the token of the        *)
(* client, then raise_for_status.                                          *)
get_pull_request ==
    /\ client.pc = "open"
    /\ client.outcome = ""
    /\ LET status == IF client.token \in host.revoked THEN 401 ELSE 200
       IN  client' = [client EXCEPT !.requests = @ + 1,
                                    !.status = status,
                                    !.outcome = IF status = 200 THEN "returned"
                                                ELSE "raised"]
    /\ UNCHANGED <<schedVars, prHead, engineVars, call, token_cache, host, txn>>

(* GitHubClient.__aexit__ *)
aexit ==
    /\ client.pc = "open"
    /\ client.outcome # ""
    /\ client' = [client EXCEPT !.pc = "closed"]
    /\ UNCHANGED <<schedVars, prHead, engineVars, call, token_cache, host, txn>>

(* The host stops accepting a token before the cache gives it up (the      *)
(* installation was suspended, its permissions changed).                   *)
Revoke(t) ==
    /\ t \in 1..host.issued
    /\ t \notin host.revoked
    /\ host' = [host EXCEPT !.revoked = @ \cup {t}]
    /\ UNCHANGED <<schedVars, prHead, engineVars, call, token_cache, client, txn>>

(***************************************************************************)
(* services/cost_tracker.py: record_usage called from several sessions.    *)
(*                                                                         *)
(* INSERT ... ON CONFLICT DO UPDATE on uq_installation_year_month takes    *)
(* the lock of the row of the key; the statement of a second session       *)
(* waits until the first has committed or rolled back, and then adds to    *)
(* the row as committed.                                                   *)
(***************************************************************************)
NoDelta == [input_tokens |-> 0, output_tokens |-> 0, cost_cents |-> 0]
IdleSession == [pc |-> "idle", delta |-> NoDelta, row |-> NoUsage]
NoTxn == [sessions |-> [w \in Workers |-> IdleSession], recorded |-> <<>>]

RowLocked == \E w \in Workers : txn.sessions[w].pc = "executed"

(* The upsert as a read of the committed row followed by a write, without  *)
(* a wait for the session that holds the lock of the row.                  *)
ExecuteUpsertUnlocked(w, input_tokens, output_tokens, cost_cents) ==
    /\ txn.sessions[w].pc = "idle"
    /\ Len(txn.recorded) < MaxUpserts
    /\ txn' = [txn EXCEPT !.sessions[w] =
                  [pc |-> "executed",
                   delta |-> [input_tokens |-> input_tokens,
                              output_tokens |-> output_tokens,
                              cost_cents |-> cost_cents],
                   row |-> Upsert(usage, input_tokens, output_tokens, cost_cents)]]
    /\ UNCHANGED <<schedVars, prHead, engineVars, call, token_cache, client, host>>

(* await session.execute(stmt) *)
ExecuteUpsert(w, input_tokens, output_tokens, cost_cents) ==
    /\ txn.sessions[w].pc = "idle"
    /\ ~RowLocked
    /\ Len(txn.recorded) < MaxUpserts
    /\ txn' = [txn EXCEPT !.sessions[w] =
                  [pc |-> "executed",
                   delta |-> [input_tokens |-> input_tokens,
                              output_tokens |-> output_tokens,
                              cost_cents |-> cost_cents],
                   row |-> Upsert(usage, input_tokens, output_tokens, cost_cents)]]
    /\ UNCHANGED <<schedVars, prHead, engineVars, call, token_cache, client, host>>

(* await session.commit() *)
CommitUpsert(w) ==
    /\ txn.sessions[w].pc = "executed"
    /\ usage' = txn.sessions[w].row
    /\ txn' = [txn EXCEPT !.sessions[w] = IdleSession,
                          !.recorded = Append(@, txn.sessions[w].delta)]
    /\ UNCHANGED <<schedVars, prHead, started, run, sess, review, ledger, checkRun,
                   hostReview, issueComments, aiCalls, replayOf,
                   call, token_cache, client, host>>

(* session.commit() raises: the transaction is rolled back. *)
RollbackUpsert(w) ==
    /\ txn.sessions[w].pc = "executed"
    /\ txn' = [txn EXCEPT !.sessions[w] = IdleSession]
    /\ UNCHANGED <<schedVars, prHead, engineVars, call, token_cache, client, host>>

(***************************************************************************)
(* Specifications                                                          *)
(***************************************************************************)
Init ==
    /\ now = 0
    /\ jobs = <<>>
    /\ worker = [w \in Workers |-> 0]
    /\ deliveries = <<>>
    /\ taskCalls = <<>>
    /\ prHead = [pr \in PRs |-> ShaA]
    /\ started = 0
    /\ run = IdleRun
    /\ sess = NoReview
    /\ review = NoReview
    /\ usage = NoUsage
    /\ ledger = NoLedger
    /\ checkRun = NoCheckRun
    /\ hostReview = NoHostReview
    /\ issueComments = 0
    /\ aiCalls = 0
    /\ replayOf = <<>>
    /\ call = NoCall
    /\ token_cache = NoToken
    /\ client = NoClient
    /\ host = NoHost
    /\ txn = NoTxn

SchedNext ==
    \/ \E pr \in PRs, action \in WebhookActions, sha \in Shas :
           github_webhook(pr, action, sha)
    \/ \E w \in Workers : FetchJob(w)
    \/ \E w \in Workers : RunTask(w)
    \/ Tick

SchedSpec == Init /\ [][SchedNext]_vars

(* Values of Installation.monthly_budget_cents and of the repository's     *)
(* override (Missing for NULL), and of pr["changed_files"].                *)
Budgets == {0, 300}
RepoBudgets == {Missing, 600}
ChangedFiles == {DefaultConfig.max_files, DefaultConfig.max_files + 1}

Step ==
    \/ \E is_active \in BOOLEAN, inst_budget \in Budgets, repo_budget \in RepoBudgets,
          gh_ok \in BOOLEAN, db_ok \in BOOLEAN :
           CheckBudget(is_active, inst_budget, repo_budget, gh_ok, db_ok)
    \/ \E gh_ok \in BOOLEAN, changed_files \in ChangedFiles :
           GetPullRequest(gh_ok, changed_files)
    \/ \E gh_ok \in BOOLEAN : CreateCheckRun(gh_ok)
    \/ \E gh_ok \in BOOLEAN, db_ok \in BOOLEAN : TooManyFiles(gh_ok, db_ok)
    \/ \E gh_ok \in BOOLEAN, diff_text \in Diffs : GetDiff(gh_ok, diff_text)
    \/ \E gh_ok \in BOOLEAN, db_ok \in BOOLEAN : DiffTooLarge(gh_ok, db_ok)
    \/ \E db_ok \in BOOLEAN : Commit(db_ok)
    \/ \E gh_ok \in BOOLEAN : Refetch(gh_ok)
    \/ \E ai_ok \in BOOLEAN, response \in Responses : ReviewDiff(ai_ok, response)
    \/ \E gh_ok \in BOOLEAN, enable_line_comments \in BOOLEAN :
           CreateReview(gh_ok, enable_line_comments)
    \/ \E db_ok \in BOOLEAN : record_usage(db_ok)
    \/ \E gh_ok \in BOOLEAN, db_ok \in BOOLEAN : Finalize(gh_ok, db_ok)
    \/ \E gh_ok \in BOOLEAN, db_ok \in BOOLEAN : Except(gh_ok, db_ok)

Call ==
    \E pr \in PRs, trigger \in Triggers, expected \in Shas \cup {<<>>},
       found \in BOOLEAN, is_enabled \in BOOLEAN, config \in Configs, db_ok \in BOOLEAN :
        Start(pr, trigger, expected, found, is_enabled, config, db_ok)

Next ==
    \/ Call
    \/ Step
    \/ Release
    \/ \E pr \in PRs, sha \in Shas : Push(pr, sha)

Spec == Init /\ [][Next]_vars

LiveSpec == Spec /\ WF_vars(Step)

(* The calls of Spec for PRs whose head never returns to an earlier        *)
(* commit.                                                                 *)
ForwardNext ==
    \/ Call
    \/ Step
    \/ Release
    \/ \E pr \in PRs, sha \in Shas : PushForward(pr, sha)

ForwardSpec == Init /\ [][ForwardNext]_vars

(* The calls of Spec and, after the last of them, the call made for a     *)
(* webhook that is delivered twice.                                        *)
ReplayNext ==
    \/ Next
    \/ \E found \in BOOLEAN, is_enabled \in BOOLEAN, config \in Configs, db_ok \in BOOLEAN :
           Redeliver(found, is_enabled, config, db_ok)

ReplaySpec == Init /\ [][ReplayNext]_vars

(* The calls of Spec with a graceful shutdown of the worker at any         *)
(* suspension point.                                                       *)
CancelNext ==
    \/ Next
    \/ Cancel

CancelSpec == Init /\ [][CancelNext]_vars

(* A review of one PR, every call of which succeeds, of an installation    *)
(* with a budget of 300 cents and no override, while the reviews of other  *)
(* PRs of the installation record their usage.                             *)
BudgetNext ==
    \/ \E pr \in PRs, trigger \in Triggers :
           Start(pr, trigger, <<>>, TRUE, TRUE, DefaultConfig, TRUE)
    \/ CheckBudget(TRUE, 300, Missing, TRUE, TRUE)
    \/ GetPullRequest(TRUE, DefaultConfig.max_files)
    \/ CreateCheckRun(TRUE)
    \/ \E diff_text \in Diffs : GetDiff(TRUE, diff_text)
    \/ DiffTooLarge(TRUE, TRUE)
    \/ Commit(TRUE)
    \/ Refetch(TRUE)
    \/ \E response \in Responses : ReviewDiff(TRUE, response)
    \/ CreateReview(TRUE, TRUE)
    \/ record_usage(TRUE)
    \/ Finalize(TRUE, TRUE)
    \/ Release
    \/ \E w \in Workers, response \in Responses :
           ExecuteUpsert(w, response.input_tokens, response.output_tokens,
                         calculate_cost_cents(response.input_tokens,
                                              response.output_tokens))
    \/ \E w \in Workers : CommitUpsert(w)

BudgetSpec == Init /\ [][BudgetNext]_vars

(* The calls of Spec and, after the last of them raised, the call of the   *)
(* retry of its job.                                                       *)
RetryNext ==
    \/ Next
    \/ \E found \in BOOLEAN, is_enabled \in BOOLEAN, config \in Configs, db_ok \in BOOLEAN :
           Retry(found, is_enabled, config, db_ok)

RetrySpec == Init /\ [][RetryNext]_vars

(* A call of one of the functions of the services, with any argument. *)
Calls ==
    {NewCall("review_diff", a) : a \in AIResponses}
    \cup {NewCall("parse_command", a) : a \in Bodies}
    \cup {NewCall("get_line_positions", a) : a \in FileDiffs}
    \cup {NewCall("parse_diff", a) : a \in DiffTexts}
    \cup {NewCall("load_repo_config", a) : a \in ConfigCalls}
    \cup {NewCall("filter_files_by_patterns", a) : a \in FilterCalls}

LibInit ==
    /\ now = 0
    /\ jobs = <<>>
    /\ worker = [w \in Workers |-> 0]
    /\ deliveries = <<>>
    /\ taskCalls = <<>>
    /\ prHead = [pr \in PRs |-> ShaA]
    /\ started = 0
    /\ run = IdleRun
    /\ sess = NoReview
    /\ review = NoReview
    /\ usage = NoUsage
    /\ ledger = NoLedger
    /\ checkRun = NoCheckRun
    /\ hostReview = NoHostReview
    /\ issueComments = 0
    /\ aiCalls = 0
    /\ replayOf = <<>>
    /\ call \in Calls
    /\ token_cache = NoToken
    /\ client = NoClient
    /\ host = NoHost
    /\ txn = NoTxn

LibNext ==
    \/ ApplyReviewDiff
    \/ ApplyParseCommand
    \/ ApplyGetLinePositions
    \/ ApplyFilterFiles
    \/ ApplyParseDiff
    \/ ApplyLoadRepoConfig

LibSpec == LibInit /\ [][LibNext]_vars

(* A GitHubClient used for one request after another while time passes and *)
(* the host revokes tokens.                                                *)
ClientNext ==
    \/ aenter
    \/ get_pull_request
    \/ aexit
    \/ \E t \in 1..MaxTokens : Revoke(t)
    \/ Tick

ClientSpec == Init /\ [][ClientNext]_vars

(* The sessions of the workers inside record_usage, with the usage of any  *)
(* answer of the AI endpoint.                                              *)
UsageNext ==
    \/ \E w \in Workers, input_tokens \in {1000, 1000000},
          output_tokens \in {0, 100, 1000000} :
           ExecuteUpsert(w, input_tokens, output_tokens,
                         calculate_cost_cents(input_tokens, output_tokens))
    \/ \E w \in Workers : CommitUpsert(w)
    \/ \E w \in Workers : RollbackUpsert(w)

UsageSpec == Init /\ [][UsageNext]_vars

(***************************************************************************)
(* Properties                                                              *)
(***************************************************************************)

(* C1: for every lock key there is at most one job waiting (todo) and at   *)
(* most one job running (doing), whatever webhooks and worker steps        *)
(* occurred.  Checked under SchedSpec.                                     *)
C1_OnePendingOneRunning ==
    \A pr \in PRs :
        LET n(st) == Cardinality({j \in 1..Len(jobs) :
                         jobs[j].status = st /\ jobs[j].queueing_lock = lock_key(pr)})
        IN  n("todo") <= 1 /\ n("doing") <= 1

(* C2: once the jobs of a burst of webhooks on a PR (each less than         *)
(* review_debounce_seconds after the previous one) have all ended, the     *)
(* engine was called exactly once for the PR, and it saw the head carried  *)
(* by the last webhook.  Checked under SchedSpec.                          *)
C2_DebounceCollapse ==
    \A pr \in PRs :
        LET burst == SelectSeq(deliveries, LAMBDA d :
                         d.pr = pr /\ d.action \in {"opened", "synchronize", "reopened"})
            calls == SelectSeq(taskCalls, LAMBDA c : c.pr = pr)
        IN  (/\ burst # <<>>
             /\ \A i \in 2..Len(burst) :
                    burst[i].at - burst[i-1].at < review_debounce_seconds
             /\ \A j \in 1..Len(jobs) : jobs[j].status \in {"succeeded", "failed"})
            => /\ Len(calls) = 1
               /\ calls[1].head = burst[Len(burst)].sha

(* C10: a webhook that finds a waiting job for its lock key is accepted,   *)
(* the waiting job is cancelled, and a new job waits in its place with the *)
(* payload of this webhook and scheduled_at = now + delay.  Checked under  *)
(* SchedSpec.                                                              *)
C10_PendingReplaced ==
    [][\A pr \in PRs :
          (/\ Len(deliveries') = Len(deliveries) + 1
           /\ deliveries'[Len(deliveries')].pr = pr
           /\ deliveries'[Len(deliveries')].action \in {"opened", "synchronize", "reopened"}
           /\ AlreadyEnqueued(lock_key(pr)))
          => LET d == deliveries'[Len(deliveries')]
             IN  /\ d.response = "queued"
                 /\ \A j \in 1..Len(jobs) :
                        (jobs[j].status = "todo" /\ jobs[j].queueing_lock = lock_key(pr))
                        => jobs'[j].status = "cancelled"
                 /\ \E j \in 1..Len(jobs') :
                        /\ jobs'[j].status = "todo"
                        /\ jobs'[j].queueing_lock = lock_key(pr)
                        /\ jobs'[j].kwargs.head_sha = d.sha
                        /\ jobs'[j].scheduled_at = now + ScheduleIn(d.action)]_vars

(* C11: no two workers run jobs with the same lock key at the same time:   *)
(* the handler of the second does not begin before the handler of the      *)
(* first has returned.  Checked under SchedSpec.                           *)
C11_SerializedPerKey ==
    \A w1 \in Workers, w2 \in Workers :
        (w1 # w2 /\ worker[w1] # 0 /\ worker[w2] # 0)
        => jobs[worker[w1]].queueing_lock # jobs[worker[w2]].queueing_lock

C13_TokensOnlyWhenCompleted ==
    review.status \notin {"none", "completed"}
    => review.input_tokens = 0 /\ review.output_tokens = 0 /\ review.cost_cents = 0

(* C14: once the committed row of a Review has a terminal status, no step  *)
(* of the call changes the status of that row.                             *)
C14_OneTerminalStatus ==
    [][(review.status \in Terminal /\ started' = started /\ run'.pc # "idle")
       => review'.status = review.status]_vars

(* C15: the committed row of a Review has github_review_id set if and only *)
(* if its status is COMPLETED.                                             *)
C15_ReviewIdIffCompleted ==
    review.status # "none"
    => (review.github_review_id # 0 <=> review.status = "completed")

(* C16: the call passes the budget gate exactly when the installation is   *)
(* active and the spend of the month (0 without a record) is strictly      *)
(* below the effective budget, the repository's when it is set; when the   *)
(* gate fails the call is over with no AI call and the usage untouched,    *)
(* and, the comment and the commit going through, exactly one comment was  *)
(* posted and the row is SKIPPED with 'Budget exceeded'.                   *)
C16_BudgetGate ==
    [][run.pc = "check_budget" =>
         \A is_active \in BOOLEAN, inst_budget \in Budgets, repo_budget \in RepoBudgets,
            gh_ok \in BOOLEAN, db_ok \in BOOLEAN :
             CheckBudget(is_active, inst_budget, repo_budget, gh_ok, db_ok) =>
                 LET effective == IF repo_budget # Missing THEN repo_budget
                                  ELSE inst_budget
                     spend == IF usage.exists THEN usage.total_cost_cents ELSE 0
                     pass == is_active /\ spend < effective
                 IN  /\ pass => /\ issueComments' = 0
                                /\ db_ok => /\ run'.pc = "get_pull_request"
                                            /\ sess'.status = "in_progress"
                     /\ ~pass => /\ run'.pc \in {"returned", "raised"}
                                 /\ aiCalls' = 0
                                 /\ usage' = usage
                                 /\ issueComments' <= 1
                                 /\ (gh_ok /\ db_ok)
                                    => /\ issueComments' = 1
                                       /\ run'.pc = "returned"
                                       /\ review'.status = "skipped"
                                       /\ review'.error_message = <<"Budget exceeded">>]_vars

C16_Witness ==
    /\ run.pc = "returned"
    /\ review.status = "skipped"
    /\ review.error_message = <<"Budget exceeded">>
    /\ issueComments = 1
    /\ aiCalls = 0
    /\ ~usage.exists

(* C17: a call whose repository is disabled, or whose trigger is not       *)
(* COMMAND while auto_review is off or the trigger is not in review_on,    *)
(* stops at the gates and, once committed, its row is SKIPPED with the     *)
(* reason of the first gate that refused; any other call, a COMMAND one    *)
(* with auto_review off included, is never SKIPPED by one of these gates.  *)
C17_CommandGates ==
    run.pc # "idle" =>
        LET off == run.trigger # "command" /\ ~run.config.auto_review
            unlisted == /\ run.trigger # "command"
                        /\ TriggerName(run.trigger) \notin run.config.review_on
            gated == ~run.is_enabled \/ off \/ unlisted
        IN  /\ gated =>
                /\ ~InProgress
                /\ aiCalls = 0
                /\ run.pc = "returned" =>
                       /\ review.status = "skipped"
                       /\ review.error_message[1] =
                              IF ~run.is_enabled THEN "Reviews disabled for this repository"
                              ELSE IF off THEN "Auto-review disabled"
                              ELSE "Trigger"
            /\ (~gated /\ review.status = "skipped") =>
                   review.error_message[1] \in
                       {"Budget exceeded", "Too many files", "Diff too large"}

C17_Witness ==
    /\ run.pc = "returned"
    /\ run.trigger = "command"
    /\ run.is_enabled
    /\ ~run.config.auto_review
    /\ review.status = "completed"
    /\ hostReview.posted

C19_CommentOnlyOnSkip ==
    (run.pc \in {"returned", "raised"} /\ review.status # "none")
    => issueComments =
           IF /\ review.status = "skipped"
              /\ review.error_message[1] \in
                     {"Budget exceeded", "Too many files", "Diff too large"}
           THEN 1 ELSE 0

(* C20 as stated: when a step after the creation of the IN_PROGRESS row    *)
(* raised, the committed row is FAILED with the message of the exception   *)
(* and completed_at set, and the check run, if one was created, has        *)
(* conclusion failure.                                                     *)
C20_FailedOnException ==
    (run.pc = "raised" /\ sess.status # "none" /\ sess.started_at # <<>>)
    => /\ review.status = "failed"
       /\ review.error_message = run.exc
       /\ review.completed_at # <<>>
       /\ review.github_check_run_id # 0 => checkRun.conclusion = "failure"

(* C20 amended: the call ends with an exception, the row of the session is *)
(* FAILED with completed_at set, an update with conclusion failure was     *)
(* sent to the check run if one was created, and unless the commit of the  *)
(* except clause failed the row is committed so, with the message of the   *)
(* exception that was raised.                                              *)
C20_FailedWhenHandlerCommits ==
    (run.pc = "raised" /\ sess.status # "none" /\ sess.started_at # <<>>)
    => /\ sess.status = "failed"
       /\ sess.completed_at # <<>>
       /\ sess.github_check_run_id # 0 => checkRun.sent = "failure"
       /\ run.exc # <<"commit in except">>
          => /\ review = sess
             /\ review.error_message = run.exc

C20_Witness ==
    /\ run.pc = "raised"
    /\ run.exc = <<"create_review">>
    /\ review.status = "failed"
    /\ review.error_message = <<"create_review">>
    /\ review.completed_at # <<>>
    /\ checkRun.conclusion = "failure"

(* C21 as stated: a call of review_pull_request for an installation id     *)
(* that has no Installation row leaves a Review row with status FAILED.    *)
C21_FailedWithoutInstallation ==
    (run.pc = "raised" /\ run.exc = <<"Installation not found">>)
    => review.status = "failed"

(* C22 as stated: review_diff returns a response for every text of the     *)
(* answer and never raises, and for a text that does not decode as JSON    *)
(* the response has no comments and risk_level medium.  Checked under      *)
(* LibSpec.                                                                *)
C22_ReviewDiffNeverRaises ==
    (call.op = "review_diff" /\ call.done)
    => /\ call.res.raised = ""
       /\ json_loads(StripFence(call.arg.text)) = JSONDecodeError
          => call.res.comments = <<>> /\ call.res.risk_level = "medium"

(* C23 as stated: the job a pull_request webhook scheduled is due          *)
(* review_debounce_seconds after the arrival of the webhook, and is not    *)
(* fetched before.  Checked under SchedSpec.                               *)
C23_DebounceDelay ==
    \A i \in 1..Len(deliveries) :
        LET d == deliveries[i]
        IN  d.job # 0
            => /\ jobs[d.job].attempts = 0
                  => jobs[d.job].scheduled_at = d.at + review_debounce_seconds
               /\ jobs[d.job].status # "todo" => now >= d.at + review_debounce_seconds

(* C23 amended: the job of a synchronize webhook is due                    *)
(* review_debounce_seconds after the arrival of the webhook, the job of an *)
(* opened or reopened webhook at its arrival, and no job is fetched before *)
(* it is due.  Checked under SchedSpec.                                    *)
C23_DelayByAction ==
    \A i \in 1..Len(deliveries) :
        LET d == deliveries[i]
            delay == IF d.action = "synchronize" THEN review_debounce_seconds ELSE 0
        IN  d.job # 0
            => /\ jobs[d.job].attempts = 0 => jobs[d.job].scheduled_at = d.at + delay
               /\ jobs[d.job].status # "todo" => now >= d.at + delay

C23_Witness ==
    \E i \in 1..Len(deliveries) :
        /\ deliveries[i].action = "synchronize"
        /\ deliveries[i].job # 0
        /\ jobs[deliveries[i].job].status = "doing"
        /\ now = deliveries[i].at + review_debounce_seconds

(* C24 as stated: every job that was run called review_pull_request with   *)
(* expected_head_sha equal to the head sha its webhook carried.  Checked   *)
(* under SchedSpec.                                                        *)
C24_WebhookShaExpected ==
    \A j \in 1..Len(jobs) :
        jobs[j].attempts > 0
        => \E i \in 1..Len(taskCalls) :
               /\ taskCalls[i].pr = jobs[j].kwargs.pr_number
               /\ taskCalls[i].expected_head_sha = jobs[j].kwargs.head_sha

(* C25: for a FileDiff that is neither deleted nor binary, the index has   *)
(* exactly one entry per context or addition line (a line without prefix   *)
(* counts as context): its key is the line number in the new revision,     *)
(* which starts at new_start and advances on context and addition lines    *)
(* only, and its diff_position is the number of lines from the first hunk  *)
(* header on, headers and deletions included; the index of a deleted or    *)
(* binary file is empty.  Checked under LibSpec.                           *)
C25_PositionIndex ==
    (call.op = "get_line_positions" /\ call.done)
    => LET f == call.arg
           lines(h) == f.hunks[h].lines
           kept == {p \in (1..Len(f.hunks)) \X (1..MaxHunkLines) :
                       p[2] <= Len(lines(p[1])) /\ lines(p[1])[p[2]].k # "-"}
           new_line(p) == f.hunks[p[1]].new_start
                          + Cardinality({y \in 1..(p[2] - 1) : lines(p[1])[y].k # "-"})
           position(p) ==
               Cardinality({q \in (1..(p[1] - 1)) \X (0..MaxHunkLines) :
                               q[2] <= Len(lines(q[1]))})
               + 1 + p[2]
       IN  IF f.is_deleted \/ f.is_binary
           THEN call.res = EmptyDict
           ELSE /\ DOMAIN call.res = {new_line(p) : p \in kept}
                /\ \A p \in kept :
                       /\ call.res[new_line(p)].diff_position = position(p)
                       /\ call.res[new_line(p)].is_addition = (lines(p[1])[p[2]].k = "+")

C25_Witness ==
    /\ call.op = "get_line_positions"
    /\ call.done
    /\ Len(call.arg.hunks) = 2
    /\ call.arg.hunks[1].lines = <<Del, Add>>
    /\ call.arg.hunks[2].lines = <<Ctx, Add>>
    /\ DOMAIN call.res = {1, 10, 11}
    /\ call.res[11].diff_position = 6

(* C26 as stated: with patterns in which ** stands for any number of path  *)
(* segments, * for a part of one segment and ? for one character, a file   *)
(* is kept if and only if the include list is empty or one of its patterns *)
(* matches new_path, and no exclude pattern matches it.  Checked under     *)
(* LibSpec for the patterns that contain a ** segment.                     *)
C26_FilterByGlob ==
    (call.op = "filter_files_by_patterns" /\ call.done)
    => LET star2(pattern) == {k \in 1..Len(pattern) : pattern[k] = <<"*", "*">>}
           glob(path, pattern) ==
               LET k == CHOOSE x \in star2(pattern) : TRUE
                   post == Len(pattern) - k
               IN  /\ Len(path) >= Len(pattern) - 1
                   /\ \A x \in 1..(k - 1) : FnMatch(path[x], pattern[x])
                   /\ \A x \in 1..post :
                          FnMatch(path[Len(path) - post + x], pattern[k + x])
           any(path, patterns) == \E x \in 1..Len(patterns) : glob(path, patterns[x])
           stated(patterns) ==
               \A x \in 1..Len(patterns) : Cardinality(star2(patterns[x])) = 1
           a == call.arg
       IN  (stated(a.include_patterns) /\ stated(a.exclude_patterns))
           => call.res = SelectSeq(a.files, LAMBDA f :
                  /\ a.include_patterns = <<>> \/ any(f.new_path, a.include_patterns)
                  /\ ~any(f.new_path, a.exclude_patterns))

(* C27 as stated: parse_command returns None exactly when no trigger in    *)
(* the body is followed by whitespace and a word; otherwise the command    *)
(* the word names (case-insensitively), HELP without args for another      *)
(* word, and as args the whitespace-separated words after the command.     *)
(* Checked under LibSpec.                                                  *)
C27_ParseCommand ==
    (call.op = "parse_command" /\ call.done)
    => LET body == call.arg
           first(i) == i + 1 + RunLength(body, i + 1, SpaceKinds)
           found(i) == /\ IsTrigger(body[i])
                       /\ first(i) > i + 1
                       /\ first(i) <= Len(body)
                       /\ (body[first(i)].k = "word" \/ WordLead(body[first(i)]))
           starts == {i \in 1..Len(body) : found(i)}
       IN  IF starts = {} THEN call.res = None
           ELSE LET j == first(CHOOSE i \in starts : \A x \in starts : i <= x)
                    e == j + RunLength(body, j, WordKinds)
                    known == /\ e = j + 1
                             /\ ~(e <= Len(body) /\ WordLead(body[e]))
                             /\ lower(body[j].text) \in CommandTypes
                IN  /\ call.res # None
                    /\ call.res.command_type = IF known THEN lower(body[j].text) ELSE "help"
                    /\ call.res.args = IF known
                                       THEN Split(<<>>, <<>>, SubSeq(body, e, Len(body)))
                                       ELSE <<>>

(* C27 amended: as stated, with args the whitespace-separated words of the *)
(* rest of the line that begins after the whitespace that follows the      *)
(* command word, and no args when no whitespace follows the command word.  *)
(* Checked under LibSpec.                                                  *)
C27_ParseCommandLine ==
    (call.op = "parse_command" /\ call.done)
    => LET body == call.arg
           first(i) == i + 1 + RunLength(body, i + 1, SpaceKinds)
           found(i) == /\ IsTrigger(body[i])
                       /\ first(i) > i + 1
                       /\ first(i) <= Len(body)
                       /\ (body[first(i)].k = "word" \/ WordLead(body[first(i)]))
           starts == {i \in 1..Len(body) : found(i)}
       IN  IF starts = {} THEN call.res = None
           ELSE LET j == first(CHOOSE i \in starts : \A x \in starts : i <= x)
                    e == j + RunLength(body, j, WordKinds)
                    known == /\ e = j + 1
                             /\ ~(e <= Len(body) /\ WordLead(body[e]))
                             /\ lower(body[j].text) \in CommandTypes
                    a == e + RunLength(body, e, SpaceKinds)
                    stop == IF \E x \in a..Len(body) : body[x].k = "newline"
                            THEN CHOOSE x \in a..Len(body) :
                                     /\ body[x].k = "newline"
                                     /\ \A y \in a..(x - 1) : body[y].k # "newline"
                            ELSE Len(body) + 1
                IN  /\ call.res # None
                    /\ call.res.command_type = IF known THEN lower(body[j].text) ELSE "help"
                    /\ call.res.args = IF known /\ a > e
                                       THEN Split(<<>>, <<>>, SubSeq(body, a, stop - 1))
                                       ELSE <<>>
                    /\ call.res.raw_text = body

C27_Witness ==
    /\ call.op = "parse_command"
    /\ call.done
    /\ call.res # None
    /\ call.res.command_type = "review"
    /\ call.res.args = << <<"src", "/">> >>
    /\ call.arg[1] = Phrase(<<"@reviewer">>)
    /\ call.arg[Len(call.arg)] = Wd("REVIEW")
    /\ call.arg[Len(call.arg) - 1] = Nl

(* C28 as stated: a request that fails with 401 at the caller was sent     *)
(* twice, the second time with a token other than the one the first was    *)
(* refused with, and the refused token is no longer the cached one.        *)
(* Checked under ClientSpec.                                               *)
C28_RetryOn401 ==
    (client.outcome = "raised" /\ client.status = 401)
    => /\ client.requests = 2
       /\ token_cache.token \notin host.revoked

(* C29: whatever the interleaving of the sessions, the UsageRecord of the  *)
(* key exists if and only if a call of record_usage was committed, and     *)
(* its totals are the sums of the deltas of the committed calls.  Checked  *)
(* under UsageSpec.                                                        *)
C29_NoLostIncrement ==
    LET RECURSIVE Sum(_, _)
        Sum(deltas, field) ==
            IF deltas = <<>> THEN 0
            ELSE Head(deltas)[field] + Sum(Tail(deltas), field)
    IN  /\ usage.exists <=> txn.recorded # <<>>
        /\ usage.total_reviews = Len(txn.recorded)
        /\ usage.total_input_tokens = Sum(txn.recorded, "input_tokens")
        /\ usage.total_output_tokens = Sum(txn.recorded, "output_tokens")
        /\ usage.total_cost_cents = Sum(txn.recorded, "cost_cents")

C29_Witness ==
    /\ Len(txn.recorded) = 2
    /\ txn.recorded[1] # txn.recorded[2]
    /\ usage.total_input_tokens = 1001000
    /\ usage.total_cost_cents > 0
    /\ \E w \in Workers : txn.sessions[w].pc = "executed"

(* C30: when the diff is within the size limit and no file is left after   *)
(* the path filter, the call goes to the commit of a row that is COMPLETED *)
(* with the summary 'No files to review after applying path filters.',     *)
(* risk_level low and no tokens or cost, and when that commit goes through *)
(* the call returns with this row committed, no call of the AI endpoint    *)
(* and no review published on the host.                                    *)
C30_NoFilesCompleted ==
    [][/\ (run.pc = "get_diff" /\ run' # run)
          => \A diff_text \in Diffs :
                 (/\ GetDiff(TRUE, diff_text)
                  /\ Len(diff_text) <= max_diff_size_bytes
                  /\ filter_files_by_patterns(parse_diff(diff_text),
                         run.config.include, run.config.exclude) = <<>>)
                 => /\ run'.pc = "commit"
                    /\ sess'.status = "completed"
                    /\ sess'.summary = <<"No files to review after applying path filters.">>
                    /\ sess'.risk_level = <<"low">>
                    /\ sess'.input_tokens = 0
                    /\ sess'.output_tokens = 0
                    /\ sess'.cost_cents = 0
       /\ (run.pc = "commit" /\ run'.pc = "returned")
          => /\ review' = sess
             /\ review'.status = "completed"
             /\ review'.summary = <<"No files to review after applying path filters.">>
             /\ review'.cost_cents = 0
             /\ aiCalls' = 0
             /\ ~hostReview'.posted]_vars

C30_Witness ==
    /\ run.pc = "returned"
    /\ review.status = "completed"
    /\ review.summary = <<"No files to review after applying path filters.">>
    /\ review.risk_level = <<"low">>
    /\ aiCalls = 0
    /\ ~hostReview.posted

(* C31 as stated: a call of review_pull_request that is cancelled at a     *)
(* suspension point leaves the Review row it created with a terminal       *)
(* status.  Checked under CancelSpec.                                      *)
C31_CancelledLeavesTerminal ==
    (run.pc = "raised" /\ run.exc = <<"CancelledError">>)
    => sess.status \in Terminal /\ review.status \in Terminal

(* C32: a call that one of the four gates refuses is over at that gate:    *)
(* it has fetched no PR metadata and no diff, created no check run, made   *)
(* no AI call, published no review and left the UsageRecord as it was;     *)
(* when the commit goes through (and, for the budget gate, the comment),   *)
(* its only row is created in status SKIPPED, never IN_PROGRESS, with the  *)
(* reason of the gate in error_message.                                    *)
C32_GatesStopEarly ==
    [][/\ (started' = started + 1 /\ run'.exc # <<"Installation not found">>)
          => LET t == run'.trigger
                 c == run'.config
                 off == t # "command" /\ ~c.auto_review
                 unlisted == t # "command" /\ TriggerName(t) \notin c.review_on
             IN  (~run'.is_enabled \/ off \/ unlisted)
                 => /\ run'.pc \in {"returned", "raised"}
                    /\ run'.head = <<>>
                    /\ checkRun' = NoCheckRun
                    /\ aiCalls' = 0
                    /\ ~hostReview'.posted
                    /\ issueComments' = 0
                    /\ usage' = usage
                    /\ run'.pc = "returned"
                       => /\ review' = sess'
                          /\ review'.status = "skipped"
                          /\ review'.started_at = <<>>
                          /\ review'.head_sha = <<>>
                          /\ review'.github_check_run_id = 0
                          /\ review'.error_message[1] =
                                 IF ~run'.is_enabled
                                 THEN "Reviews disabled for this repository"
                                 ELSE IF off THEN "Auto-review disabled"
                                 ELSE "Trigger"
       /\ run.pc = "check_budget"
          => \A is_active \in BOOLEAN, inst_budget \in Budgets,
                repo_budget \in RepoBudgets, gh_ok \in BOOLEAN, db_ok \in BOOLEAN :
                 (/\ CheckBudget(is_active, inst_budget, repo_budget, gh_ok, db_ok)
                  /\ ~(is_active /\ usage.total_cost_cents <
                          (IF repo_budget # Missing THEN repo_budget ELSE inst_budget)))
                 => /\ run'.pc \in {"returned", "raised"}
                    /\ run'.head = <<>>
                    /\ checkRun' = NoCheckRun
                    /\ aiCalls' = 0
                    /\ ~hostReview'.posted
                    /\ usage' = usage
                    /\ (gh_ok /\ db_ok)
                       => /\ run'.pc = "returned"
                          /\ review' = sess'
                          /\ review'.status = "skipped"
                          /\ review'.started_at = <<>>
                          /\ review'.head_sha = <<>>
                          /\ review'.github_check_run_id = 0
                          /\ review'.error_message = <<"Budget exceeded">>]_vars

C32_Witness ==
    /\ run.pc = "returned"
    /\ run.trigger = "pr_reopened"
    /\ run.config.auto_review
    /\ review.status = "skipped"
    /\ review.error_message = <<"Trigger", "pr_reopened", "not enabled">>
    /\ review.started_at = <<>>
    /\ run.head = <<>>
    /\ checkRun = NoCheckRun
    /\ aiCalls = 0

(* C33 as stated: a call that ended SKIPPED for too many files or too      *)
(* large a diff, or COMPLETED without a file to review, created no check   *)
(* run.                                                                    *)
C33_CheckRunAfterGates ==
    (/\ run.pc = "returned"
     /\ \/ /\ review.status = "skipped"
           /\ review.error_message[1] \in {"Too many files", "Diff too large"}
        \/ /\ review.status = "completed"
           /\ review.summary = <<"No files to review after applying path filters.">>)
    => checkRun.status = "none" /\ review.github_check_run_id = 0

(* C34 as stated: the committed COMPLETED row of a call has comments_posted *)
(* equal to the number of inline comments of the review the call published *)
(* on the host.                                                            *)
C34_CommentsPostedCount ==
    (review.status = "completed" /\ run.pc # "idle")
    => review.comments_posted = Len(hostReview.comments)

(* C35 as stated: the lines of a hunk are the lines that follow its header *)
(* up to the first line that is not empty and begins with none of +, - and *)
(* space; no line after that one belongs to the hunk.  Checked under       *)
(* LibSpec.                                                                *)
C35_HunkEndsAtOtherLine ==
    (call.op = "parse_diff" /\ call.done)
    => LET body == SubSeq(call.arg, 3, Len(call.arg))
           ends == {i \in 1..Len(body) : body[i].k \notin {"+", "-", " ", ""}}
           n == IF ends = {} THEN Len(body) + 1
                ELSE CHOOSE i \in ends : \A j \in ends : i <= j
       IN  call.res[1].hunks[1].lines = SubSeq(body, 1, n - 1)

(* C36 as stated: whenever a call issues its AI call, the total_cost_cents *)
(* of the installation's UsageRecord of the month is strictly below the    *)
(* effective budget, here 300 cents.  Checked under BudgetSpec.            *)
C36_BudgetAtAICall ==
    [][aiCalls' = aiCalls + 1 => usage.total_cost_cents < 300]_vars

(* C37 as stated: when a call whose AI call returned is over, whether its  *)
(* row is COMPLETED or FAILED, the UsageRecord has been incremented by the *)
(* tokens and the cost of the answer.  Stated for the first call, before   *)
(* which the record is empty.                                              *)
C37_AICallAccounted ==
    (/\ started = 1
     /\ run.pc \in {"returned", "raised"}
     /\ sess.status # "none"
     /\ sess.input_tokens > 0)
    => /\ usage.exists
       /\ usage.total_input_tokens = sess.input_tokens
       /\ usage.total_output_tokens = sess.output_tokens
       /\ usage.total_cost_cents = sess.cost_cents

(* C37 amended: when a call whose AI call returned is over, the            *)
(* UsageRecord has been incremented by the tokens and the cost of the      *)
(* answer, once, if the committed row of the call is COMPLETED, and is     *)
(* unchanged if the call failed in publishing the review or in             *)
(* record_usage; it is never incremented by anything else.  Stated for the *)
(* first call, before which the record is empty.                           *)
C37_AccountedWhenRecorded ==
    (/\ started = 1
     /\ run.pc \in {"returned", "raised"}
     /\ sess.status # "none"
     /\ sess.input_tokens > 0)
    => /\ review.status = "completed" => usage.exists
       /\ run.exc \in {<<"create_review">>, <<"record_usage">>} => ~usage.exists
       /\ usage.exists
          => /\ usage.total_reviews = 1
             /\ usage.total_input_tokens = sess.input_tokens
             /\ usage.total_output_tokens = sess.output_tokens
             /\ usage.total_cost_cents = sess.cost_cents

C37_Witness ==
    /\ started = 1
    /\ run.pc = "returned"
    /\ review.status = "completed"
    /\ aiCalls = 1
    /\ sess.input_tokens = 1000000
    /\ usage.total_input_tokens = 1000000
    /\ usage.total_cost_cents = 300

(* C38 as stated: when the run of a job published a review on the host and *)
(* raised, the run of its retry publishes none.  Checked under RetrySpec.  *)
C38_OneReviewPerJob ==
    replayOf # <<>> => ~hostReview.posted

(* C39 as stated: for a repository whose .aireviewer.yaml sets auto_review *)
(* to false, the config that load_repo_config returns to a review that is  *)
(* not triggered by a command stops it at the auto_review gate, whatever   *)
(* the age of the cache and the outcome of the fetch.  Checked under       *)
(* LibSpec.                                                                *)
C39_AutoReviewOffHolds ==
    (/\ call.op = "load_repo_config"
     /\ call.done
     /\ ~call.arg.file.auto_review
     /\ call.arg.trigger # "command")
    => GateReason(call.arg.trigger, TRUE, call.res.config) = <<"Auto-review disabled">>

(* C40: when a host review is published, its commit_id is the head sha the *)
(* call saw at its first get_pull_request and again at the one right       *)
(* before the AI call, and, the head of a PR never returning to an earlier *)
(* commit, the diff that was reviewed was fetched while the head of the PR *)
(* was that commit.  Checked under ForwardSpec.                            *)
C40_ReviewOfReviewedCommit ==
    [][(~hostReview.posted /\ hostReview'.posted)
       => /\ hostReview'.commit_id = run.head
          /\ run.current = run.head
          /\ run.diff_head = run.head]_vars

(* A review is published for the commit that a push made during the call  *)
(* brought, the diff having been fetched at that commit.                   *)
C40_Witness ==
    /\ run.pc = "record_usage"
    /\ hostReview.posted
    /\ hostReview.commit_id = run.diff_head
    /\ run.diff_head = ShaB
    /\ prHead[run.pr] = ShaB

(* C3 as stated: whenever the expected head differs from the fetched head, *)
(* or the second fetch returns another head than the first, the call ends  *)
(* with no AI call, no host review, and a row SUPERSEDED with the message  *)
(* naming the newer head, cost 0 and the check run cancelled.              *)
C3_AlwaysSuperseded ==
    (/\ run.pc \in {"returned", "raised"}
     /\ run.head # <<>>
     /\ \/ run.expected_head_sha # <<>> /\ run.expected_head_sha # run.head
        \/ run.current # <<>> /\ run.current # run.head)
    => /\ aiCalls = 0
       /\ ~hostReview.posted
       /\ review.status = "superseded"
       /\ review.error_message =
              <<"Superseded by newer commit",
                Short(IF run.current # <<>> THEN run.current ELSE run.head)>>
       /\ review.cost_cents = 0
       /\ review.github_check_run_id # 0 => checkRun.conclusion = "cancelled"

(* C3 amended: in such a call the AI is never called and no host review is *)
(* posted; and when the call got as far as the comparison (files_reviewed  *)
(* was set) and returned, the row is SUPERSEDED with the message naming    *)
(* the newer head, cost 0, and an update with conclusion cancelled was     *)
(* sent to its check run, if it has one.                                   *)
C3_SupersedeBeforeAI ==
    (/\ run.pc # "idle"
     /\ run.head # <<>>
     /\ \/ run.expected_head_sha # <<>> /\ run.expected_head_sha # run.head
        \/ run.current # <<>> /\ run.current # run.head)
    => /\ aiCalls = 0
       /\ ~hostReview.posted
       /\ (run.pc = "returned" /\ sess.files_reviewed > 0)
          => /\ review.status = "superseded"
             /\ review.error_message =
                    <<"Superseded by newer commit",
                      Short(IF run.current # <<>> THEN run.current ELSE run.head)>>
             /\ review.cost_cents = 0
             /\ review.github_check_run_id # 0 => checkRun.sent = "cancelled"

C3_Witness ==
    /\ run.pc = "returned"
    /\ run.current # <<>>
    /\ run.current # run.head
    /\ review.status = "superseded"
    /\ review.error_message = <<"Superseded by newer commit", Short(ShaB)>>
    /\ checkRun.conclusion = "cancelled"

(* C4: a Review that is SUPERSEDED or SKIPPED, in the session or           *)
(* committed, has input_tokens = output_tokens = cost_cents = 0.           *)
C4_NoCostOnSupersede ==
    \A row \in {sess, review} :
        row.status \in {"superseded", "skipped"}
        => row.input_tokens = 0 /\ row.output_tokens = 0 /\ row.cost_cents = 0

C4_Witness ==
    /\ review.status = "superseded"
    /\ run.pc = "returned"
    /\ run.expected_head_sha # <<>>
    /\ run.expected_head_sha # run.head

(* C5: when no call is in progress, the totals of the UsageRecord equal    *)
(* the sums of tokens and cost and the count over the committed COMPLETED  *)
(* rows; a missing record counts as zeros.                                 *)
C5_UsageConservation ==
    ~InProgress
    => LET sums == Fold(ledger, review)
       IN  /\ usage.total_input_tokens = sums.input_tokens
           /\ usage.total_output_tokens = sums.output_tokens
           /\ usage.total_cost_cents = sums.cost_cents
           /\ usage.total_reviews = sums.reviews

(* C6: the committed row of a call that ended has completed_at set if and  *)
(* only if its status is terminal.                                         *)
C6_CompletedAtIffTerminal ==
    (~InProgress /\ review.status # "none")
    => (review.completed_at # <<>> <=> review.status \in Terminal)

(* C7: a Review created IN_PROGRESS eventually has a terminal status, the  *)
(* call over, whichever hosting, AI or database calls fail.  Checked under *)
(* LiveSpec.                                                               *)
C7_TerminalCompleteness ==
    (sess.status = "in_progress")
        ~> (/\ ~InProgress
            /\ sess.status \in Terminal
            /\ review.status \in Terminal \cup {"none"})

C7_Witness ==
    /\ run.pc = "raised"
    /\ run.exc = <<"review_diff">>
    /\ sess.status = "failed"
    /\ review.status = "failed"
    /\ aiCalls = 1

(* C8: the committed row of a call that ended, if terminal and with a      *)
(* check run id, has a check run whose last update sent carries the        *)
(* conclusion mapped from the status of the row.                           *)
C8_CheckRunConsistency ==
    (/\ ~InProgress
     /\ review.status \in Terminal
     /\ review.github_check_run_id # 0)
    => checkRun.sent = Conclusion(review.status)

(* C9: every inline comment of the published host review and every comment *)
(* row, in the session or committed, has a file and line in the position   *)
(* index of the filtered files and carries the diff_position found there;  *)
(* an AI comment whose file and line are not in the index is in neither.   *)
C9_PositionSoundness ==
    run.pc \in {"create_review", "record_usage", "finalize", "except"}
    => LET position_index == build_position_index(run.filtered_files)
           InIndex(file, line) ==
               file \in DOMAIN position_index /\ line \in DOMAIN position_index[file]
           out == {c \in {hostReview.comments, sess.comments,
                          IF review.status = "none" THEN <<>> ELSE review.comments} :
                       TRUE}
       IN  \A cs \in out :
               /\ \A i \in 1..Len(cs) :
                      /\ InIndex(cs[i].path, cs[i].line)
                      /\ cs[i].position =
                             position_index[cs[i].path][cs[i].line].diff_position
               /\ \A k \in 1..Len(run.response.comments) :
                      LET a == run.response.comments[k]
                      IN  ~InIndex(a.file, a.line)
                          => \A i \in 1..Len(cs) :
                                 ~(cs[i].path = a.file /\ cs[i].line = a.line)

C9_Witness ==
    /\ run.pc = "finalize"
    /\ hostReview.posted
    /\ Len(hostReview.comments) = 1
    /\ Len(run.response.comments) = 2
    /\ review.status = "completed"
    /\ review.comments = hostReview.comments

====
